---- MODULE Spec2Model ----
(***************************************************************************)
(* The Structural Block Segmenter of the PL/SQL front-ends                 *)
(* (plsql_parsing_agent_Version3.py, streamlit_plsql_to_pyspark_Version13) *)
(* as a state machine.                                                     *)
(*                                                                         *)
(* Text is a sequence of cells <<ch, pos>>: ch is the character, pos the   *)
(* index of that character in the input plsql_code, or 0 for a character   *)
(* the program itself inserted (a joining newline, an appended ';').  The  *)
(* program only ever reads ch; pos is history that lets the properties     *)
(* speak about loss, insertion, order and duplication of source text.      *)
(***************************************************************************)
EXTENDS Integers, Sequences, FiniteSets, TLC

VARIABLES plsql_code, n_words, max_chunk_size, frontend, pc,
          regex_blocks, all_blocks, cleaned_blocks, final_blocks, block_types,
          locals, conversion, validation

vars == <<plsql_code, n_words, max_chunk_size, frontend, pc,
          regex_blocks, all_blocks, cleaned_blocks, final_blocks, block_types,
          locals, conversion, validation>>

(***************************************************************************)
(* Characters and Python's str primitives                                  *)
(***************************************************************************)
Ch(c) == c[1]
Pos(c) == c[2]

NL == "\n"
CR == "\r"
SP == " "
SEMI == ";"

\* A character the program inserts: it has no source position.
Ins(ch) == <<ch, 0>>

\* The cells of an input string.
Cells(str) == [i \in 1..Len(str) |-> <<str[i], i>>]

\* The characters of a text, positions forgotten.
Txt(s) == [i \in 1..Len(s) |-> Ch(s[i])]

SetMin(S) == CHOOSE x \in S : \A y \in S : x <= y
SetMax(S) == CHOOSE x \in S : \A y \in S : x >= y

LowerLetters == <<"a","b","c","d","e","f","g","h","i","j","k","l","m",
                  "n","o","p","q","r","s","t","u","v","w","x","y","z">>
UpperLetters == <<"A","B","C","D","E","F","G","H","I","J","K","L","M",
                  "N","O","P","Q","R","S","T","U","V","W","X","Y","Z">>

LowerSet == {LowerLetters[i] : i \in 1..26}
UpperSet == {UpperLetters[i] : i \in 1..26}
ToUpper == [ch \in LowerSet |-> UpperLetters[CHOOSE i \in 1..26 : LowerLetters[i] = ch]]

\* str.upper() on one character.
UpperCh(ch) == IF ch \in LowerSet THEN ToUpper[ch] ELSE ch

\* What str.strip() and the regex class \s treat as whitespace.
IsSpace(ch) == ch \in {SP, NL, CR, "\t"}

\* The regex class \w, and the characters of an identifier for the lexer.
WordChars == LowerSet \cup UpperSet \cup {"0","1","2","3","4","5","6","7","8","9","_"}
IsWordCh(ch) == ch \in WordChars

\* The least i in lo..hi with P(i), or 0 when there is none.
FirstIdx(lo, hi, P(_)) ==
  IF \E i \in lo..hi : P(i)
  THEN CHOOSE i \in lo..hi : P(i) /\ \A j \in lo..(i-1) : ~P(j)
  ELSE 0

\* The greatest i in lo..hi with P(i), or 0 when there is none.
LastIdx(lo, hi, P(_)) ==
  IF \E i \in lo..hi : P(i)
  THEN CHOOSE i \in lo..hi : P(i) /\ \A j \in (i+1)..hi : ~P(j)
  ELSE 0

\* s[lo:hi], 1-based and inclusive; empty when lo is 0 (nothing found).
Slice(s, lo, hi) == IF lo = 0 THEN << >> ELSE SubSeq(s, lo, hi)

\* str.strip()
Strip(s) ==
  Slice(s, FirstIdx(1, Len(s), LAMBDA i : ~IsSpace(Ch(s[i]))),
           LastIdx(1, Len(s), LAMBDA i : ~IsSpace(Ch(s[i]))))

\* s[p:].upper().startswith(w), p 1-based, w a sequence of upper-case characters.
MatchAtCI(s, p, w) ==
  /\ p >= 1
  /\ p + Len(w) - 1 <= Len(s)
  /\ \A i \in 1..Len(w) : UpperCh(Ch(s[p + i - 1])) = w[i]

\* s.startswith(w), case-sensitive.
StartsWith(s, w) ==
  /\ Len(w) <= Len(s)
  /\ \A i \in 1..Len(w) : Ch(s[i]) = w[i]

\* A finite set of integers as an increasing sequence.
RECURSIVE SortedSeq(_)
SortedSeq(S) ==
  IF S = {} THEN << >>
  ELSE LET m == SetMin(S) IN <<m>> \o SortedSeq(S \ {m})

\* str.split(sep) for a one-character separator: the pieces between the
\* separators, empty pieces included; k separators give k+1 pieces.
SplitCh(s, sep) ==
  LET at == SortedSeq({i \in 1..Len(s) : Ch(s[i]) = sep})
      n  == Len(at)
      lo(k) == IF k = 1 THEN 1 ELSE at[k-1] + 1
      hi(k) == IF k = n + 1 THEN Len(s) ELSE at[k] - 1
  IN  [k \in 1..(n+1) |-> SubSeq(s, lo(k), hi(k))]

\* '\n'.join(reversed(parts)): the parts joined last to first.
RECURSIVE JoinNLBackwards(_)
JoinNLBackwards(parts) ==
  IF Len(parts) = 0 THEN << >>
  ELSE IF Len(parts) = 1 THEN parts[1]
  ELSE JoinNLBackwards(Tail(parts)) \o <<Ins(NL)>> \o parts[1]

\* '\n'.join(parts): the joining newlines are the program's own characters.
RECURSIVE JoinNL(_)
JoinNL(parts) ==
  IF Len(parts) = 0 THEN << >>
  ELSE IF Len(parts) = 1 THEN parts[1]
  ELSE parts[1] \o <<Ins(NL)>> \o JoinNL(Tail(parts))

\* Concatenation of a list of texts.
RECURSIVE Concat(_)
Concat(parts) ==
  IF Len(parts) = 0 THEN << >> ELSE parts[1] \o Concat(Tail(parts))

(***************************************************************************)
(* _regex_chunk_blocks: the Structural Extractor                           *)
(***************************************************************************)
KwCREATE    == <<"C","R","E","A","T","E">>
KwOR        == <<"O","R">>
KwREPLACE   == <<"R","E","P","L","A","C","E">>
KwFUNCTION  == <<"F","U","N","C","T","I","O","N">>
KwPROCEDURE == <<"P","R","O","C","E","D","U","R","E">>
KwPACKAGE   == <<"P","A","C","K","A","G","E">>
KwTRIGGER   == <<"T","R","I","G","G","E","R">>
KwDECLARE   == <<"D","E","C","L","A","R","E">>
KwBEGIN     == <<"B","E","G","I","N">>
KwEND       == <<"E","N","D">>

\* code = plsql_code.replace('\r\n', '\n').replace('\r', '\n')
NormalizeNewlines(s) ==
  LET n       == Len(s)
      drop(i) == Ch(s[i]) = CR /\ i < n /\ Ch(s[i+1]) = NL
      marked  == [i \in 1..n |-> <<s[i], drop(i)>>]
      keep(m) == ~m[2]
      kept    == SelectSeq(marked, keep)
  IN  [i \in 1..Len(kept) |->
         IF Ch(kept[i][1]) = CR THEN <<NL, Pos(kept[i][1])>> ELSE kept[i][1]]

\* a if a is an index (not 0), else b.
OrElse(a, b) == IF a # 0 THEN a ELSE b

\* A literal keyword kw at p: the index after it, or 0 when it is not there
\* (or p is 0: what came before did not match).
AfterKw(s, p, kw) == IF MatchAtCI(s, p, kw) THEN p + Len(kw) ELSE 0

\* \s+ starting at p: the index after the run, or 0 when s[p] is no whitespace
\* (or p is 0).
SkipSpaces1(s, p) ==
  IF p = 0 \/ p > Len(s) \/ ~IsSpace(Ch(s[p])) THEN 0
  ELSE OrElse(FirstIdx(p, Len(s), LAMBDA i : ~IsSpace(Ch(s[i]))), Len(s) + 1)

\* [\s\S]*?END\s*; tried from position `from`: the index of the ';' that ends
\* the first (leftmost) END\s*; starting at or after `from`, or 0.
LazyEndSemi(s, from) ==
  LET isSemi(r) == r # 0 /\ Ch(s[r]) = SEMI
      semiOf(q) == IF q = 0 THEN 0
                   ELSE FirstIdx(q + 3, Len(s), LAMBDA r : ~IsSpace(Ch(s[r])))
      isEnd(q)  == MatchAtCI(s, q, KwEND) /\ isSemi(semiOf(q))
  IN  IF from = 0 THEN 0 ELSE semiOf(FirstIdx(from, Len(s), isEnd))

\* CREATE\s+(?:OR\s+REPLACE\s+)?(?:FUNCTION|PROCEDURE|PACKAGE|TRIGGER) at p:
\* the index after the header, or 0.
CreateHeaderEnd(s, p) ==
  LET kw(q)   == IF q = 0 THEN 0
                 ELSE IF MatchAtCI(s, q, KwFUNCTION)  THEN q + 8
                 ELSE IF MatchAtCI(s, q, KwPROCEDURE) THEN q + 9
                 ELSE IF MatchAtCI(s, q, KwPACKAGE)   THEN q + 7
                 ELSE IF MatchAtCI(s, q, KwTRIGGER)   THEN q + 7
                 ELSE 0
      orRep(a) == SkipSpaces1(s, AfterKw(s, SkipSpaces1(s, AfterKw(s, a, KwOR)), KwREPLACE))
      hdr(a)   == OrElse(kw(orRep(a)), kw(a))
  IN  hdr(SkipSpaces1(s, AfterKw(s, p, KwCREATE)))

\* block_re matched at position p: the index of the last character of the
\* match, or 0 when no alternative matches at p.  The alternatives are tried
\* in the order of the pattern.
BlockReMatchEnd(s, p) ==
  LET alt1 == LazyEndSemi(s, CreateHeaderEnd(s, p))
      alt2 == LazyEndSemi(s, AfterKw(s, p, KwDECLARE))
      alt3 == LazyEndSemi(s, AfterKw(s, p, KwBEGIN))
      alt4 == IF Ch(s[p]) # SEMI
              THEN FirstIdx(p + 1, Len(s), LAMBDA i : Ch(s[i]) = SEMI)
              ELSE 0
  IN  OrElse(alt1, OrElse(alt2, OrElse(alt3, alt4)))

\* block_re.findall(code) from position p on: the non-overlapping matches,
\* left to right.  Every alternative ends with ';', so nothing matches once
\* no ';' is left.
RECURSIVE FindAll(_, _)
FindAll(s, p) ==
  IF p > Len(s) \/ ~(\E i \in p..Len(s) : Ch(s[i]) = SEMI) THEN << >>
  ELSE LET from(e) == IF e = 0 THEN FindAll(s, p + 1)
                       ELSE <<SubSeq(s, p, e)>> \o FindAll(s, e + 1)
       IN  from(BlockReMatchEnd(s, p))

\* if block and block != '/': blocks.append(block)
KeepBlock(block) ==
  IF Len(block) > 0 /\ Txt(block) # <<"/">> THEN <<block>> ELSE << >>

\* The loop of lines 18-21 over the matches ms.
RECURSIVE KeepBlocks(_)
KeepBlocks(ms) ==
  IF Len(ms) = 0 THEN << >>
  ELSE KeepBlock(Strip(ms[1])) \o KeepBlocks(Tail(ms))

regex_chunk_blocks(code_in) ==
  KeepBlocks(FindAll(NormalizeNewlines(code_in), 1))

(***************************************************************************)
(* sqlparse.parse as _ast_chunk_blocks uses it: the lexer's token at a     *)
(* position and the statement splitter's nesting level, for the token      *)
(* classes that occur over this model's alphabet (words, ';', blanks,      *)
(* newlines, '--' comments, the operator characters '/' and '-').          *)
(* str(stmt) of the statements, concatenated, is the text parsed, except   *)
(* for an all-whitespace tail, which the splitter does not yield.          *)
(***************************************************************************)
IsOperatorCh(ch) == ch \in {"/", "-", "+"}

\* The kind of the token that starts at p.
TokenKind(s, p) ==
  IF MatchAtCI(s, p, <<"-", "-">>) THEN "comment"
  ELSE IF Ch(s[p]) \in {NL, CR} THEN "newline"
  ELSE IF IsSpace(Ch(s[p])) THEN "whitespace"
  ELSE IF IsWordCh(Ch(s[p])) THEN "word"
  ELSE IF Ch(s[p]) = SEMI THEN "semicolon"
  ELSE IF IsOperatorCh(Ch(s[p])) THEN "operator"
  ELSE "other"

\* The index of the last character of the token of the given kind that
\* starts at p.
TokenEnd(s, p, kind) ==
  LET n       == Len(s)
      upto(q) == IF q = 0 THEN n ELSE q - 1
      eol(q)  == IF q = 0 THEN n
                 ELSE IF Ch(s[q]) = CR /\ q < n /\ Ch(s[q+1]) = NL THEN q + 1
                 ELSE q
  IN  IF kind = "comment"
      THEN eol(FirstIdx(p + 2, n, LAMBDA i : Ch(s[i]) \in {NL, CR}))
      ELSE IF kind = "newline"
      THEN eol(p)
      ELSE IF kind = "word"
      THEN upto(FirstIdx(p, n, LAMBDA i : ~IsWordCh(Ch(s[i]))))
      ELSE IF kind = "operator"
      THEN upto(FirstIdx(p, n, LAMBDA i : ~IsOperatorCh(Ch(s[i]))))
      ELSE p

\* The token s[p..e] is the keyword kw.
IsKeyword(s, p, e, kw) == e - p + 1 = Len(kw) /\ MatchAtCI(s, p, kw)

\* The splitter keyword that the token s[p..e] of the given kind is, or "".
SplitKeyword(s, p, e, kind) ==
  IF kind # "word" THEN ""
  ELSE IF IsKeyword(s, p, e, KwCREATE) THEN "CREATE"
  ELSE IF IsKeyword(s, p, e, KwDECLARE) THEN "DECLARE"
  ELSE IF IsKeyword(s, p, e, KwBEGIN) THEN "BEGIN"
  ELSE IF IsKeyword(s, p, e, KwEND) THEN "END"
  ELSE ""

\* StatementSplitter._reset, for a statement whose first token is at start.
SplitterReset(start) ==
  [level |-> 0, is_create |-> FALSE, begin_depth |-> 0, consume_ws |-> FALSE,
   start |-> start]

\* StatementSplitter._change_splitlevel on keyword kw, added to level.
ChangeSplitlevel(f, kw) ==
  IF kw = "CREATE" THEN [f EXCEPT !.is_create = TRUE]
  ELSE IF kw = "DECLARE" /\ f.is_create /\ f.begin_depth = 0
  THEN [f EXCEPT !.level = @ + 1]
  ELSE IF kw = "BEGIN"
  THEN [f EXCEPT !.begin_depth = @ + 1,
                 !.level = IF f.is_create THEN @ + 1 ELSE @]
  ELSE IF kw = "END"
  THEN [f EXCEPT !.begin_depth = IF @ > 0 THEN @ - 1 ELSE 0,
                 !.level = @ - 1]
  ELSE f

\* if self.level <= 0 and ttype is T.Punctuation and value == ';'
ConsumeWs(f, kind) ==
  [f EXCEPT !.consume_ws = @ \/ (f.level <= 0 /\ kind = "semicolon")]

\* StatementSplitter.process from the token at p on, with the splitter's
\* fields f (f.start is the index of the first token of the pending
\* statement).  The result is the list of str(stmt).
RECURSIVE SplitStatements(_, _, _)
SplitStatements(s, p, f) ==
  IF p > Len(s)
  THEN IF f.start <= Len(s) /\ \E i \in f.start..Len(s) : ~IsSpace(Ch(s[i]))
       THEN <<SubSeq(s, f.start, Len(s))>>
       ELSE << >>
  ELSE
    LET after(kind, e, f0) ==
          SplitStatements(s, e + 1,
            ConsumeWs(ChangeSplitlevel(f0, SplitKeyword(s, p, e, kind)), kind))
        emit(kind, yield) ==
          (IF yield THEN <<SubSeq(s, f.start, p - 1)>> ELSE << >>)
          \o after(kind, TokenEnd(s, p, kind),
                   IF yield THEN SplitterReset(p) ELSE f)
        token(kind) ==
          emit(kind, f.consume_ws /\ kind \notin {"whitespace", "comment"})
    IN  token(TokenKind(s, p))

sqlparse_parse(s) == SplitStatements(s, 1, SplitterReset(1))

(***************************************************************************)
(* _ast_chunk_blocks: the Statement Decomposer                             *)
(***************************************************************************)
\* all(l.strip().startswith('--') or not l.strip() for l in b.split('\n'))
AllCommentOrBlank(b) ==
  LET ls == SplitCh(b, NL)
  IN  \A k \in 1..Len(ls) :
        LET l == Strip(ls[k]) IN Len(l) = 0 \/ StartsWith(l, <<"-", "-">>)

\* re.split(r'(?i)(?=BEGIN)', stmt_str): a cut before every BEGIN.
SplitBeforeBegin(s) ==
  LET cuts == SortedSeq({i \in 1..Len(s) : MatchAtCI(s, i, KwBEGIN)})
      n    == Len(cuts)
      lo(k) == IF k = 1 THEN 1 ELSE cuts[k-1]
      hi(k) == IF k = n + 1 THEN Len(s) ELSE cuts[k] - 1
  IN  [k \in 1..(n+1) |-> SubSeq(s, lo(k), hi(k))]

\* The flush test with the boundary shifted by one.
ReachesBudget(total, max) == total >= max

\* temp_len > max_chunk_size (line 46), buff_len > max_chunk_size (line 101)
ExceedsBudget(total, max) == total > max

\* The length of a part without its terminator.
PartLenNoTerminator(part) == Len(part)

\* len(part) + 1 (line 45)
PartLen(part) == Len(part) + 1

\* The bucketing loop of lines 41-51 from part k of parts = ib.split(';') on,
\* with the pending bucket temp and its running length temp_len.
RECURSIVE AstBucket(_, _, _, _, _)
AstBucket(parts, k, temp, temp_len, max) ==
  IF k > Len(parts)
  THEN IF Len(temp) > 0 THEN <<Strip(JoinNL(temp))>> ELSE << >>
  ELSE IF Len(Strip(parts[k])) = 0
  THEN AstBucket(parts, k + 1, temp, temp_len, max)
  ELSE LET temp1 == Append(temp, parts[k] \o <<Ins(SEMI)>>)
           len1  == temp_len + PartLen(parts[k])
       IN  IF ExceedsBudget(len1, max)
           THEN <<Strip(JoinNL(temp1))>> \o AstBucket(parts, k + 1, << >>, 0, max)
           ELSE AstBucket(parts, k + 1, temp1, len1, max)

\* One turn of the loop of lines 33-54, on ib = inner_block.strip().
AstInnerBlock(ib, max) ==
  IF Len(ib) = 0 THEN << >>
  ELSE IF Len(ib) > max THEN AstBucket(SplitCh(ib, SEMI), 1, << >>, 0, max)
  ELSE <<ib>>

\* The loop of lines 33-54 over inner_blocks.
RECURSIVE AstInnerBlocks(_, _)
AstInnerBlocks(inner_blocks, max) ==
  IF Len(inner_blocks) = 0 THEN << >>
  ELSE AstInnerBlock(Strip(inner_blocks[1]), max)
       \o AstInnerBlocks(Tail(inner_blocks), max)

\* One turn of the loop of lines 27-56, on stmt_str = str(stmt).strip().
AstStatement(stmt_str, max) ==
  IF Len(stmt_str) = 0 THEN << >>
  ELSE IF Len(stmt_str) > max THEN AstInnerBlocks(SplitBeforeBegin(stmt_str), max)
  ELSE <<stmt_str>>

\* The loop of lines 27-56 over statements.
RECURSIVE AstStatements(_, _)
AstStatements(statements, max) ==
  IF Len(statements) = 0 THEN << >>
  ELSE AstStatement(Strip(statements[1]), max)
       \o AstStatements(Tail(statements), max)

\* The filter of lines 57-63, and of line 109.
RECURSIVE DropBlankAndComment(_)
DropBlankAndComment(blocks) ==
  IF Len(blocks) = 0 THEN << >>
  ELSE (IF Len(Strip(blocks[1])) = 0 \/ AllCommentOrBlank(blocks[1])
        THEN << >> ELSE <<blocks[1]>>)
       \o DropBlankAndComment(Tail(blocks))

ast_chunk_blocks(code_in, max) ==
  DropBlankAndComment(AstStatements(sqlparse_parse(code_in), max))

(***************************************************************************)
(* split_plsql_into_blocks: routing, the Merge/Resplit Normalizer and the  *)
(* final Comment Filter                                                    *)
(***************************************************************************)
SmallFragment == 180
MergeCeiling == 300
DefaultMaxChunkSize == 1200

\* block.upper().startswith(('CREATE', 'DECLARE', 'BEGIN'))
IsCompoundStart(block) ==
  \/ MatchAtCI(block, 1, KwCREATE)
  \/ MatchAtCI(block, 1, KwDECLARE)
  \/ MatchAtCI(block, 1, KwBEGIN)

\* The loop of lines 69-74: a unit goes through the decomposer or is kept.
RECURSIVE RouteBlocks(_, _)
RouteBlocks(blocks, max) ==
  IF Len(blocks) = 0 THEN << >>
  ELSE (IF Len(blocks[1]) > max \/ IsCompoundStart(blocks[1])
        THEN ast_chunk_blocks(blocks[1], max)
        ELSE <<blocks[1]>>)
       \o RouteBlocks(Tail(blocks), max)

\* sum(len(x) for x in temp)
RECURSIVE SumLen(_)
SumLen(temp) == IF Len(temp) = 0 THEN 0 ELSE Len(temp[1]) + SumLen(Tail(temp))

\* len(b) < 180, with the boundary shifted by one.
IsSmallOrAtThreshold(b) == Len(b) <= SmallFragment

\* len(b) < 180
IsSmall(b) == Len(b) < SmallFragment

\* The overflow test with the boundary shifted by one.
ReachesCeiling(temp) == SumLen(temp) >= MergeCeiling

\* sum(len(x) for x in temp) > 300
ExceedsCeiling(temp) == SumLen(temp) > MergeCeiling

\* The merge loop of lines 77-91 from fragment k of bs on, with the pending
\* buffer temp.
RECURSIVE MergeFrom(_, _, _)
MergeFrom(bs, k, temp) ==
  IF k > Len(bs)
  THEN IF Len(temp) > 0 THEN <<JoinNL(temp)>> ELSE << >>
  ELSE LET b == bs[k]
       IN  IF Len(Strip(b)) = 0 THEN MergeFrom(bs, k + 1, temp)
           ELSE IF IsSmall(b)
           THEN LET temp1 == Append(temp, b)
                IN  IF ExceedsCeiling(temp1)
                    THEN <<JoinNL(temp1)>> \o MergeFrom(bs, k + 1, << >>)
                    ELSE MergeFrom(bs, k + 1, temp1)
           ELSE (IF Len(temp) > 0 THEN <<JoinNL(temp)>> ELSE << >>)
                \o <<b>> \o MergeFrom(bs, k + 1, << >>)

\* The merge pass taking the fragments last to first.
MergeBackwards(bs) == MergeFrom([i \in 1..Len(bs) |-> bs[Len(bs) + 1 - i]], 1, << >>)

MergeBlocks(bs) == MergeFrom(bs, 1, << >>)

\* stmts = [s+';' for s in b.split(';') if s.strip()]
RECURSIVE ResplitStmts(_)
ResplitStmts(parts) ==
  IF Len(parts) = 0 THEN << >>
  ELSE (IF Len(Strip(parts[1])) > 0
        THEN <<parts[1] \o <<Ins(SEMI)>>>> ELSE << >>)
       \o ResplitStmts(Tail(parts))

\* The bucketing loop of lines 98-105 from statement k on.
RECURSIVE ResplitBucket(_, _, _, _, _)
ResplitBucket(stmts, k, buff, buff_len, max) ==
  IF k > Len(stmts)
  THEN IF Len(buff) > 0 THEN <<JoinNL(buff)>> ELSE << >>
  ELSE LET buff1 == Append(buff, stmts[k])
           len1  == buff_len + Len(stmts[k])
       IN  IF ExceedsBudget(len1, max)
           THEN <<JoinNL(buff1)>> \o ResplitBucket(stmts, k + 1, << >>, 0, max)
           ELSE ResplitBucket(stmts, k + 1, buff1, len1, max)

\* The re-split loop of lines 93-108 over cleaned_blocks.
RECURSIVE ResplitBlocks(_, _)
ResplitBlocks(blocks, max) ==
  IF Len(blocks) = 0 THEN << >>
  ELSE (IF Len(blocks[1]) > max
        THEN ResplitBucket(ResplitStmts(SplitCh(blocks[1], SEMI)), 1, << >>, 0, max)
        ELSE <<blocks[1]>>)
       \o ResplitBlocks(Tail(blocks), max)

\* Line 109 without its condition: every block kept.
KeepAllBlocks(blocks) == blocks

\* Line 109.
FinalFilter(blocks) == DropBlankAndComment(blocks)

(***************************************************************************)
(* get_block_type: the Block Classifier                                    *)
(***************************************************************************)
BlockType == {"FUNCTION", "PROCEDURE", "PACKAGE", "TRIGGER", "ANONYMOUS BLOCK",
              "UPDATE", "INSERT", "DELETE", "SELECT", "OTHER"}

HdrFUNCTION  == KwCREATE \o <<SP>> \o KwOR \o <<SP>> \o KwREPLACE \o <<SP>> \o KwFUNCTION
HdrPROCEDURE == KwCREATE \o <<SP>> \o KwOR \o <<SP>> \o KwREPLACE \o <<SP>> \o KwPROCEDURE
HdrPACKAGE   == KwCREATE \o <<SP>> \o KwOR \o <<SP>> \o KwREPLACE \o <<SP>> \o KwPACKAGE
HdrTRIGGER   == KwCREATE \o <<SP>> \o KwOR \o <<SP>> \o KwREPLACE \o <<SP>> \o KwTRIGGER
KwUPDATE == <<"U","P","D","A","T","E">>
KwINSERT == <<"I","N","S","E","R","T">>
KwDELETE == <<"D","E","L","E","T","E">>
KwSELECT == <<"S","E","L","E","C","T">>

\* block.strip().splitlines(): the lines of the stripped block; none when the
\* stripped block is empty.
Splitlines(b) == IF Len(b) = 0 THEN << >> ELSE SplitCh(NormalizeNewlines(b), NL)

StripSplitlines(block) == Splitlines(Strip(block))

\* The chain of `if header.startswith(...)` of lines 114-135, on
\* header = block.strip().splitlines()[0].upper().
HeaderType(header) ==
  IF MatchAtCI(header, 1, HdrFUNCTION) THEN "FUNCTION"
  ELSE IF MatchAtCI(header, 1, HdrPROCEDURE) THEN "PROCEDURE"
  ELSE IF MatchAtCI(header, 1, HdrPACKAGE) THEN "PACKAGE"
  ELSE IF MatchAtCI(header, 1, HdrTRIGGER) THEN "TRIGGER"
  ELSE IF MatchAtCI(header, 1, KwDECLARE) THEN "ANONYMOUS BLOCK"
  ELSE IF MatchAtCI(header, 1, KwBEGIN) THEN "ANONYMOUS BLOCK"
  ELSE IF MatchAtCI(header, 1, KwUPDATE) THEN "UPDATE"
  ELSE IF MatchAtCI(header, 1, KwINSERT) THEN "INSERT"
  ELSE IF MatchAtCI(header, 1, KwDELETE) THEN "DELETE"
  ELSE IF MatchAtCI(header, 1, KwSELECT) THEN "SELECT"
  ELSE "OTHER"

\* lines[-1] in place of lines[0]: the tag of the last line.
LastLine(lines) ==
  IF Len(lines) = 0 THEN "IndexError" ELSE HeaderType(lines[Len(lines)])

\* lines[0]: the tag of the first line, or "IndexError" when there is none.
FirstLine(lines) == IF Len(lines) = 0 THEN "IndexError" ELSE HeaderType(lines[1])

\* The tag, or "IndexError" where splitlines()[0] raises.
get_block_type(block) == FirstLine(StripSplitlines(block))

(***************************************************************************)
(* The front-ends and the state machine                                    *)
(***************************************************************************)
ParsingAgent == "plsql_parsing_agent_Version3"
StreamlitToPyspark == "streamlit_plsql_to_pyspark_Version13"
FrontEnds == {ParsingAgent, StreamlitToPyspark}

\* Whether the front-end's module binds the name re that _regex_chunk_blocks
\* and _ast_chunk_blocks use (import re).
ImportsRe(fe) == fe = ParsingAgent

\* Whether the front-end classifies the blocks it got (get_block_type).
Classifies(fe) == fe = ParsingAgent

\* The input sets: a script is typed word by word.
MaxWords == 4
Budgets == {3, 7, DefaultMaxChunkSize}

WA == <<"a">>
WSemi == <<SEMI>>
WSp == <<SP>>
WNl == <<NL>>
WDashes == <<"-", "-">>
WSlash == <<"/">>
WLine == <<"a", SEMI, NL>>

Vocabulary == {WA, WSemi, WSp, WNl, WDashes, WSlash, WLine, KwBEGIN, KwEND}

\* The local variables of a running call of split_plsql_into_blocks and of the
\* _ast_chunk_blocks it calls, by their names in the code: loop is the for
\* loop the call is in, i_<list> the number of elements of <list> that loop
\* has taken, depth the number of decomposition loops open (the loop over
\* inner_blocks and the loop over parts).
NoLocals ==
  [loop |-> "none", depth |-> 0,
   i_regex_blocks |-> 0,
   statements |-> << >>, i_statements |-> 0, blocks |-> << >>,
   inner_blocks |-> << >>, i_inner_blocks |-> 0,
   parts |-> << >>, i_parts |-> 0, sub_blocks |-> << >>,
   temp |-> << >>, temp_len |-> 0,
   i_blocks |-> 0, ast_final_blocks |-> << >>,
   i_all_blocks |-> 0,
   i_cleaned_blocks |-> 0,
   stmts |-> << >>, i_stmts |-> 0, buff |-> << >>, buff_len |-> 0]

\* The state of llm_rule_node and of the _convert_chunk it calls (llm.py):
\* pc is where the node is, ast_blocks the ids of state["ast_blocks"], i the
\* number of blocks the loop of line 130 has taken, retry the parameter of
\* the running _convert_chunk, calls the outcomes of the calls of
\* llm.predict_messages made for the current block, records the list records.
NoConversion ==
  [pc |-> "idle", dry_run |-> FALSE, ast_blocks |-> << >>, i |-> 0,
   retry |-> FALSE, calls |-> << >>, records |-> << >>,
   pyspark_chunks |-> << >>, failed_chunks |-> << >>]

\* The state of validate_node (validate.py): pyspark_code and dry_run of its
\* argument, and the keys it returns.
NoValidation ==
  [pc |-> "input", pyspark_code |-> << >>, n_words |-> 0, dry_run |-> FALSE,
   validation_passed |-> FALSE, validation_score |-> 0,
   validation_tags |-> << >>, failed_chunks |-> << >>]

Init ==
  /\ plsql_code = << >>
  /\ n_words = 0
  /\ max_chunk_size = 0
  /\ frontend = "none"
  /\ pc = "input"
  /\ regex_blocks = << >>
  /\ all_blocks = << >>
  /\ cleaned_blocks = << >>
  /\ final_blocks = << >>
  /\ block_types = << >>
  /\ locals = NoLocals
  /\ conversion = NoConversion
  /\ validation = NoValidation

\* The script grows by one word of vocab (st.text_area / st.file_uploader).
TypeWord(vocab, bound) ==
  /\ pc = "input"
  /\ n_words < bound
  /\ \E w \in vocab : plsql_code' = plsql_code \o w
  /\ n_words' = n_words + 1
  /\ UNCHANGED <<conversion, validation, max_chunk_size, frontend, pc, regex_blocks, all_blocks,
                 cleaned_blocks, final_blocks, block_types, locals>>

\* A call of split_plsql_into_blocks(plsql_code, max) in front-end fe.  Where
\* re is unbound the first statement that uses it raises NameError.
SplitPlsqlIntoBlocks(fe, max) ==
  /\ pc = "input"
  /\ frontend' = fe
  /\ max_chunk_size' = max
  /\ IF ImportsRe(fe)
     THEN /\ regex_blocks' = regex_chunk_blocks(Cells(plsql_code))
          /\ all_blocks' = RouteBlocks(regex_blocks', max)
          /\ cleaned_blocks' = MergeBlocks(all_blocks')
          /\ final_blocks' = FinalFilter(ResplitBlocks(cleaned_blocks', max))
          /\ pc' = "returned"
     ELSE /\ pc' = "NameError"
          /\ UNCHANGED <<regex_blocks, all_blocks, cleaned_blocks, final_blocks>>
  /\ UNCHANGED <<conversion, validation, plsql_code, n_words, block_types, locals>>

\* The max_chunk_size of a call: the parsing agent passes chunk_size, the
\* converter the constant 1200.
ChunkSizes(fe, budgets) ==
  IF fe = ParsingAgent THEN budgets ELSE {DefaultMaxChunkSize}

\* if sql_code: blocks = split_plsql_into_blocks(sql_code, max_chunk_size=...)
CallSplit(budgets) ==
  /\ Len(plsql_code) > 0
  /\ \E fe \in FrontEnds : \E max \in ChunkSizes(fe, budgets) :
       SplitPlsqlIntoBlocks(fe, max)

\* One turn of the loop `for block in blocks: block_types.append(get_block_type(block))`.
ClassifyBlock ==
  /\ pc = "returned"
  /\ Classifies(frontend)
  /\ Len(block_types) < Len(final_blocks)
  /\ block_types' = Append(block_types, get_block_type(final_blocks[Len(block_types) + 1]))
  /\ UNCHANGED <<conversion, validation, plsql_code, n_words, max_chunk_size, frontend, pc,
                 regex_blocks, all_blocks, cleaned_blocks, final_blocks, locals>>

Next ==
  \/ TypeWord(Vocabulary, MaxWords)
  \/ CallSplit(Budgets)
  \/ ClassifyBlock

Spec == Init /\ [][Next]_vars

(***************************************************************************)
(* Scripts of keywords, for the classifier and the compound units          *)
(***************************************************************************)
MaxKwWords == 3
KwBudgets == {7, 10, DefaultMaxChunkSize}
WCreateOrReplaceFunction == <<"C","R","E","A","T","E"," ","O","R"," ","R","E","P","L","A","C","E"," ","F","U","N","C","T","I","O","N"," ","f">>
WCreateFunction == <<"C","R","E","A","T","E"," ","F","U","N","C","T","I","O","N"," ","f">>
WCreateOrReplaceProcedure == <<"C","R","E","A","T","E"," ","O","R"," ","R","E","P","L","A","C","E"," ","P","R","O","C","E","D","U","R","E"," ","p">>
WCreateOrReplacePackageLower == <<"c","r","e","a","t","e"," ","o","r"," ","r","e","p","l","a","c","e"," ","p","a","c","k","a","g","e"," ","k">>
WCreateOrReplaceTrigger == <<"C","R","E","A","T","E"," ","O","R"," ","R","E","P","L","A","C","E"," ","T","R","I","G","G","E","R"," ","t">>
WDeclare == <<"D","E","C","L","A","R","E">>
WBegin == <<"B","E","G","I","N">>
WUpdate == <<"U","P","D","A","T","E"," ","t">>
WInsertMixed == <<"I","n","s","e","r","t">>
WDelete == <<"D","E","L","E","T","E">>
WSelect == <<"S","E","L","E","C","T">>
WStmt == <<" ","x",";">>
WIs == <<" ","I","S"," ">>
WEndSemi == <<"E","N","D",";">>
WBeginBlock == <<"B","E","G","I","N"," ","x",";"," ","E","N","D",";">>

KwVocabulary == {WCreateOrReplaceFunction, WCreateFunction, WCreateOrReplaceProcedure,
                 WCreateOrReplacePackageLower, WCreateOrReplaceTrigger, WDeclare,
                 WBegin, WUpdate, WInsertMixed, WDelete, WSelect, WStmt, WIs,
                 WEndSemi, WBeginBlock, WNl}

NextKw ==
  \/ TypeWord(KwVocabulary, MaxKwWords)
  \/ CallSplit(KwBudgets)
  \/ ClassifyBlock

SpecKw == Init /\ [][NextKw]_vars

(***************************************************************************)
(* Scripts of long statements, for the merge thresholds                    *)
(***************************************************************************)
MaxFrags == 3
FragLens == {100, 121, 140, 170, 179, 180, 200}
SliderMin == 200
MergeBudgets == {SliderMin, DefaultMaxChunkSize}

\* A statement of n characters: n-1 letters and the terminator.
LongStatement(n) == [i \in 1..n |-> IF i = n THEN SEMI ELSE "x"]

\* The script grows by one statement on a line of its own.
TypeStatement ==
  /\ pc = "input"
  /\ n_words < MaxFrags
  /\ \E n \in FragLens :
       plsql_code' = plsql_code \o (IF Len(plsql_code) = 0 THEN << >> ELSE <<NL>>)
                                \o LongStatement(n)
  /\ n_words' = n_words + 1
  /\ UNCHANGED <<conversion, validation, max_chunk_size, frontend, pc, regex_blocks, all_blocks,
                 cleaned_blocks, final_blocks, block_types, locals>>

NextMerge ==
  \/ TypeStatement
  \/ CallSplit(MergeBudgets)
  \/ ClassifyBlock

SpecMerge == Init /\ [][NextMerge]_vars

(***************************************************************************)
(* split_plsql_into_blocks one loop turn at a time                         *)
(***************************************************************************)
\* The for statement: the next element of the list.
SkipOne(i) == i + 2

Advance(i) == i + 1

\* The call, up to the head of the loop of line 69.
BeginCall(fe, max) ==
  /\ pc = "input"
  /\ Len(plsql_code) > 0
  /\ frontend' = fe
  /\ max_chunk_size' = max
  /\ IF ImportsRe(fe)
     THEN /\ regex_blocks' = regex_chunk_blocks(Cells(plsql_code))
          /\ locals' = [NoLocals EXCEPT !.loop = "regex_blocks"]
          /\ pc' = "running"
     ELSE /\ pc' = "NameError"
          /\ UNCHANGED <<regex_blocks, locals>>
  /\ UNCHANGED <<conversion, validation, plsql_code, n_words, all_blocks, cleaned_blocks, final_blocks,
                 block_types>>

\* One turn of `for block in regex_blocks` (lines 69-74): the unit is kept,
\* or _ast_chunk_blocks is called on it and runs to the head of its loop over
\* statements (lines 25-27).
RouteTurn ==
  /\ pc = "running"
  /\ locals.loop = "regex_blocks"
  /\ locals.i_regex_blocks < Len(regex_blocks)
  /\ LET block == regex_blocks[locals.i_regex_blocks + 1]
     IN  IF Len(block) > max_chunk_size \/ IsCompoundStart(block)
         THEN /\ locals' = [locals EXCEPT !.loop = "statements",
                                          !.statements = sqlparse_parse(block),
                                          !.i_statements = 0,
                                          !.blocks = << >>]
              /\ UNCHANGED all_blocks
         ELSE /\ all_blocks' = Append(all_blocks, block)
              /\ locals' = [locals EXCEPT !.i_regex_blocks = Advance(@)]
  /\ UNCHANGED <<conversion, validation, plsql_code, n_words, max_chunk_size, frontend, pc,
                 regex_blocks, cleaned_blocks, final_blocks, block_types>>

\* One turn of `for stmt in statements` (lines 27-56) up to the head of the
\* loop over inner_blocks.
StatementTurn ==
  /\ pc = "running"
  /\ locals.loop = "statements"
  /\ locals.i_statements < Len(locals.statements)
  /\ LET turn(stmt_str) ==
           IF Len(stmt_str) = 0
           THEN [locals EXCEPT !.i_statements = Advance(@)]
           ELSE IF Len(stmt_str) > max_chunk_size
           THEN [locals EXCEPT !.loop = "inner_blocks",
                               !.depth = @ + 1,
                               !.inner_blocks = SplitBeforeBegin(stmt_str),
                               !.i_inner_blocks = 0]
           ELSE [locals EXCEPT !.blocks = Append(@, stmt_str),
                               !.i_statements = Advance(@)]
     IN  locals' = turn(Strip(locals.statements[locals.i_statements + 1]))
  /\ UNCHANGED <<conversion, validation, plsql_code, n_words, max_chunk_size, frontend, pc, regex_blocks,
                 all_blocks, cleaned_blocks, final_blocks, block_types>>

\* One turn of `for ib in inner_blocks` (lines 33-54) up to the head of the
\* loop over ib.split(';').
InnerBlockTurn ==
  /\ pc = "running"
  /\ locals.loop = "inner_blocks"
  /\ locals.i_inner_blocks < Len(locals.inner_blocks)
  /\ LET turn(ib) ==
           IF Len(ib) = 0
           THEN [locals EXCEPT !.i_inner_blocks = Advance(@)]
           ELSE IF Len(ib) > max_chunk_size
           THEN [locals EXCEPT !.loop = "parts",
                               !.depth = @ + 1,
                               !.parts = SplitCh(ib, SEMI),
                               !.i_parts = 0,
                               !.sub_blocks = << >>,
                               !.temp = << >>,
                               !.temp_len = 0]
           ELSE [locals EXCEPT !.blocks = Append(@, ib),
                               !.i_inner_blocks = Advance(@)]
     IN  locals' = turn(Strip(locals.inner_blocks[locals.i_inner_blocks + 1]))
  /\ UNCHANGED <<conversion, validation, plsql_code, n_words, max_chunk_size, frontend, pc, regex_blocks,
                 all_blocks, cleaned_blocks, final_blocks, block_types>>

\* One turn of `for part in ib.split(';')` (lines 41-49).
PartTurn ==
  /\ pc = "running"
  /\ locals.loop = "parts"
  /\ locals.i_parts < Len(locals.parts)
  /\ LET turn(part) ==
           IF Len(Strip(part)) = 0
           THEN [locals EXCEPT !.i_parts = Advance(@)]
           ELSE IF ExceedsBudget(locals.temp_len + PartLen(part), max_chunk_size)
           THEN [locals EXCEPT
                   !.sub_blocks = Append(@, Strip(JoinNL(Append(locals.temp,
                                                   part \o <<Ins(SEMI)>>)))),
                   !.temp = << >>,
                   !.temp_len = 0,
                   !.i_parts = Advance(@)]
           ELSE [locals EXCEPT !.temp = Append(@, part \o <<Ins(SEMI)>>),
                               !.temp_len = @ + PartLen(part),
                               !.i_parts = Advance(@)]
     IN  locals' = turn(locals.parts[locals.i_parts + 1])
  /\ UNCHANGED <<conversion, validation, plsql_code, n_words, max_chunk_size, frontend, pc, regex_blocks,
                 all_blocks, cleaned_blocks, final_blocks, block_types>>

\* The end of the loop over parts (lines 50-52): the pending bucket is
\* flushed, blocks takes sub_blocks, and the loop over inner_blocks goes on.
PartsDone ==
  /\ pc = "running"
  /\ locals.loop = "parts"
  /\ locals.i_parts = Len(locals.parts)
  /\ LET done(sub_blocks) ==
           [locals EXCEPT !.sub_blocks = sub_blocks,
                          !.blocks = @ \o sub_blocks,
                          !.loop = "inner_blocks",
                          !.depth = @ - 1,
                          !.i_inner_blocks = Advance(@)]
     IN  locals' = done(IF Len(locals.temp) > 0
                        THEN Append(locals.sub_blocks, Strip(JoinNL(locals.temp)))
                        ELSE locals.sub_blocks)
  /\ UNCHANGED <<conversion, validation, plsql_code, n_words, max_chunk_size, frontend, pc, regex_blocks,
                 all_blocks, cleaned_blocks, final_blocks, block_types>>

\* The end of the loop over inner_blocks: the loop over statements goes on.
InnerBlocksDone ==
  /\ pc = "running"
  /\ locals.loop = "inner_blocks"
  /\ locals.i_inner_blocks = Len(locals.inner_blocks)
  /\ locals' = [locals EXCEPT !.loop = "statements",
                              !.depth = @ - 1,
                              !.i_statements = Advance(@)]
  /\ UNCHANGED <<conversion, validation, plsql_code, n_words, max_chunk_size, frontend, pc, regex_blocks,
                 all_blocks, cleaned_blocks, final_blocks, block_types>>

\* The end of the loop over statements: line 57 and the head of the loop of
\* line 58.
StatementsDone ==
  /\ pc = "running"
  /\ locals.loop = "statements"
  /\ locals.i_statements = Len(locals.statements)
  /\ locals' = [locals EXCEPT !.loop = "blocks",
                              !.i_blocks = 0,
                              !.ast_final_blocks = << >>]
  /\ UNCHANGED <<conversion, validation, plsql_code, n_words, max_chunk_size, frontend, pc, regex_blocks,
                 all_blocks, cleaned_blocks, final_blocks, block_types>>

\* One turn of `for b in blocks` of _ast_chunk_blocks (lines 58-63).
AstFilterTurn ==
  /\ pc = "running"
  /\ locals.loop = "blocks"
  /\ locals.i_blocks < Len(locals.blocks)
  /\ LET turn(b) ==
           IF Len(Strip(b)) = 0 \/ AllCommentOrBlank(b)
           THEN [locals EXCEPT !.i_blocks = Advance(@)]
           ELSE [locals EXCEPT !.ast_final_blocks = Append(@, b),
                               !.i_blocks = Advance(@)]
     IN  locals' = turn(locals.blocks[locals.i_blocks + 1])
  /\ UNCHANGED <<conversion, validation, plsql_code, n_words, max_chunk_size, frontend, pc, regex_blocks,
                 all_blocks, cleaned_blocks, final_blocks, block_types>>

\* return final_blocks of _ast_chunk_blocks (line 64) into
\* all_blocks.extend(...) (line 72); the loop over regex_blocks goes on.
AstReturn ==
  /\ pc = "running"
  /\ locals.loop = "blocks"
  /\ locals.i_blocks = Len(locals.blocks)
  /\ all_blocks' = all_blocks \o locals.ast_final_blocks
  /\ locals' = [locals EXCEPT !.loop = "regex_blocks",
                              !.i_regex_blocks = Advance(@)]
  /\ UNCHANGED <<conversion, validation, plsql_code, n_words, max_chunk_size, frontend, pc, regex_blocks,
                 cleaned_blocks, final_blocks, block_types>>

\* The end of the loop over regex_blocks: lines 75-76 and the head of the
\* merge loop.
RouteDone ==
  /\ pc = "running"
  /\ locals.loop = "regex_blocks"
  /\ locals.i_regex_blocks = Len(regex_blocks)
  /\ locals' = [locals EXCEPT !.loop = "all_blocks",
                              !.i_all_blocks = 0,
                              !.temp = << >>]
  /\ UNCHANGED <<conversion, validation, plsql_code, n_words, max_chunk_size, frontend, pc, regex_blocks,
                 all_blocks, cleaned_blocks, final_blocks, block_types>>

\* One turn of `for b in all_blocks` (lines 77-89).
MergeTurn ==
  /\ pc = "running"
  /\ locals.loop = "all_blocks"
  /\ locals.i_all_blocks < Len(all_blocks)
  /\ LET b == all_blocks[locals.i_all_blocks + 1]
     IN  IF Len(Strip(b)) = 0
         THEN /\ locals' = [locals EXCEPT !.i_all_blocks = Advance(@)]
              /\ UNCHANGED cleaned_blocks
         ELSE IF IsSmall(b)
         THEN IF ExceedsCeiling(Append(locals.temp, b))
              THEN /\ cleaned_blocks' = Append(cleaned_blocks,
                                               JoinNL(Append(locals.temp, b)))
                   /\ locals' = [locals EXCEPT !.temp = << >>,
                                               !.i_all_blocks = Advance(@)]
              ELSE /\ locals' = [locals EXCEPT !.temp = Append(@, b),
                                               !.i_all_blocks = Advance(@)]
                   /\ UNCHANGED cleaned_blocks
         ELSE /\ cleaned_blocks' =
                   cleaned_blocks
                   \o (IF Len(locals.temp) > 0 THEN <<JoinNL(locals.temp)>> ELSE << >>)
                   \o <<b>>
              /\ locals' = [locals EXCEPT !.temp = << >>,
                                          !.i_all_blocks = Advance(@)]
  /\ UNCHANGED <<conversion, validation, plsql_code, n_words, max_chunk_size, frontend, pc, regex_blocks,
                 all_blocks, final_blocks, block_types>>

\* The end of the merge loop: lines 90-92 and the head of the re-split loop.
MergeDone ==
  /\ pc = "running"
  /\ locals.loop = "all_blocks"
  /\ locals.i_all_blocks = Len(all_blocks)
  /\ cleaned_blocks' =
       cleaned_blocks
       \o (IF Len(locals.temp) > 0 THEN <<JoinNL(locals.temp)>> ELSE << >>)
  /\ locals' = [locals EXCEPT !.loop = "cleaned_blocks",
                              !.i_cleaned_blocks = 0]
  /\ UNCHANGED <<conversion, validation, plsql_code, n_words, max_chunk_size, frontend, pc, regex_blocks,
                 all_blocks, final_blocks, block_types>>

\* One turn of `for b in cleaned_blocks` (lines 93-108) up to the head of the
\* loop over stmts.
ResplitTurn ==
  /\ pc = "running"
  /\ locals.loop = "cleaned_blocks"
  /\ locals.i_cleaned_blocks < Len(cleaned_blocks)
  /\ LET b == cleaned_blocks[locals.i_cleaned_blocks + 1]
     IN  IF Len(b) > max_chunk_size
         THEN /\ locals' = [locals EXCEPT
                              !.loop = "stmts",
                              !.stmts = ResplitStmts(SplitCh(b, SEMI)),
                              !.i_stmts = 0,
                              !.buff = << >>,
                              !.buff_len = 0]
              /\ UNCHANGED final_blocks
         ELSE /\ final_blocks' = Append(final_blocks, b)
              /\ locals' = [locals EXCEPT !.i_cleaned_blocks = Advance(@)]
  /\ UNCHANGED <<conversion, validation, plsql_code, n_words, max_chunk_size, frontend, pc, regex_blocks,
                 all_blocks, cleaned_blocks, block_types>>

\* One turn of `for stmt in stmts` (lines 98-104).
StmtTurn ==
  /\ pc = "running"
  /\ locals.loop = "stmts"
  /\ locals.i_stmts < Len(locals.stmts)
  /\ LET stmt == locals.stmts[locals.i_stmts + 1]
     IN  IF ExceedsBudget(locals.buff_len + Len(stmt), max_chunk_size)
         THEN /\ final_blocks' = Append(final_blocks,
                                        JoinNL(Append(locals.buff, stmt)))
              /\ locals' = [locals EXCEPT !.buff = << >>,
                                          !.buff_len = 0,
                                          !.i_stmts = Advance(@)]
         ELSE /\ locals' = [locals EXCEPT !.buff = Append(@, stmt),
                                          !.buff_len = @ + Len(stmt),
                                          !.i_stmts = Advance(@)]
              /\ UNCHANGED final_blocks
  /\ UNCHANGED <<conversion, validation, plsql_code, n_words, max_chunk_size, frontend, pc, regex_blocks,
                 all_blocks, cleaned_blocks, block_types>>

\* The end of the loop over stmts (lines 105-106); the re-split loop goes on.
StmtsDone ==
  /\ pc = "running"
  /\ locals.loop = "stmts"
  /\ locals.i_stmts = Len(locals.stmts)
  /\ final_blocks' =
       final_blocks
       \o (IF Len(locals.buff) > 0 THEN <<JoinNL(locals.buff)>> ELSE << >>)
  /\ locals' = [locals EXCEPT !.loop = "cleaned_blocks",
                              !.i_cleaned_blocks = Advance(@)]
  /\ UNCHANGED <<conversion, validation, plsql_code, n_words, max_chunk_size, frontend, pc, regex_blocks,
                 all_blocks, cleaned_blocks, block_types>>

\* The end of the re-split loop: the filter of line 109 and the return.
Return ==
  /\ pc = "running"
  /\ locals.loop = "cleaned_blocks"
  /\ locals.i_cleaned_blocks = Len(cleaned_blocks)
  /\ final_blocks' = FinalFilter(final_blocks)
  /\ locals' = [locals EXCEPT !.loop = "none"]
  /\ pc' = "returned"
  /\ UNCHANGED <<conversion, validation, plsql_code, n_words, max_chunk_size, frontend, regex_blocks,
                 all_blocks, cleaned_blocks, block_types>>

\* The steps of a running call.
RunStep ==
  \/ RouteTurn
  \/ StatementTurn
  \/ InnerBlockTurn
  \/ PartTurn
  \/ PartsDone
  \/ InnerBlocksDone
  \/ StatementsDone
  \/ AstFilterTurn
  \/ AstReturn
  \/ RouteDone
  \/ MergeTurn
  \/ MergeDone
  \/ ResplitTurn
  \/ StmtTurn
  \/ StmtsDone
  \/ Return

\* The input sets: a procedure header and nested BEGIN blocks of short
\* statements, small budgets.
MaxStepWords == 4
StepBudgets == {3, 6}
WBeginSp == <<"B","E","G","I","N"," ">>
WStmtA == <<"a", SEMI>>
WCreateProcedureBegin == <<"C","R","E","A","T","E"," ","P","R","O","C","E","D","U","R","E"," ","p"," ","I","S"," ","B","E","G","I","N"," ">>
StepVocabulary == {WCreateProcedureBegin, WBeginSp, WStmtA, WEndSemi, WNl}

CallSteps(budgets) ==
  \E fe \in FrontEnds : \E max \in ChunkSizes(fe, budgets) : BeginCall(fe, max)

NextSteps ==
  \/ TypeWord(StepVocabulary, MaxStepWords)
  \/ CallSteps(StepBudgets)
  \/ RunStep

\* The interpreter runs the next statement of a call it has begun: the weak
\* fairness of RunStep, WF_vars(RunStep), written with the state predicate
\* that ENABLED <<RunStep>>_vars equals, pc = "running" (every loop has a
\* turn for a position before the end of its list and a step for the end).
RunsOn == []<>(pc # "running") \/ []<><<RunStep>>_vars

SpecSteps == Init /\ [][NextSteps]_vars /\ RunsOn

(***************************************************************************)
(* The two bucketing loops on the same text                                *)
(***************************************************************************)
MaxBucketWords == 4
BucketBudgets == {1, 2, 3, 5}
WStmtBb == <<"b", "b", SEMI>>
BucketVocabulary == {WA, WSemi, WSp, WNl, WStmtBb}

\* Lines 38-51 and lines 95-106 on the text typed so far, when it is longer
\* than max: sub_blocks is what the decomposer's loop builds, final_blocks
\* what the re-split loop appends.
BucketBoth(max) ==
  /\ pc = "input"
  /\ Len(plsql_code) > max
  /\ max_chunk_size' = max
  /\ locals' = [locals EXCEPT
                  !.sub_blocks = AstBucket(SplitCh(Cells(plsql_code), SEMI),
                                           1, << >>, 0, max)]
  /\ final_blocks' = ResplitBucket(ResplitStmts(SplitCh(Cells(plsql_code), SEMI)),
                                   1, << >>, 0, max)
  /\ pc' = "bucketed"
  /\ UNCHANGED <<conversion, validation, plsql_code, n_words, frontend, regex_blocks, all_blocks,
                 cleaned_blocks, block_types>>

NextBucket ==
  \/ TypeWord(BucketVocabulary, MaxBucketWords)
  \/ \E max \in BucketBudgets : BucketBoth(max)

SpecBucket == Init /\ [][NextBucket]_vars

(***************************************************************************)
(* The merge pass one turn at a time, on scripts of long statements        *)
(***************************************************************************)
MaxStepFrags == 3
StepFragLens == {100, 121, 179, 180, 210}

\* The script grows by one statement of a length of StepFragLens on a line of
\* its own.
TypeFragment ==
  /\ pc = "input"
  /\ n_words < MaxStepFrags
  /\ \E n \in StepFragLens :
       plsql_code' = plsql_code \o (IF Len(plsql_code) = 0 THEN << >> ELSE <<NL>>)
                                \o LongStatement(n)
  /\ n_words' = n_words + 1
  /\ UNCHANGED <<conversion, validation, max_chunk_size, frontend, pc, regex_blocks, all_blocks,
                 cleaned_blocks, final_blocks, block_types, locals>>

NextMergeSteps ==
  \/ TypeFragment
  \/ CallSteps(MergeBudgets)
  \/ RunStep

SpecMergeSteps == Init /\ [][NextMergeSteps]_vars

(***************************************************************************)
(* llm.py: llm_rule_node and _convert_chunk                                *)
(***************************************************************************)
\* What one call of llm.predict_messages gives the try block of lines 78-100:
\* it raises, it returns blank content, it returns content with a usage
\* record, or it returns content whose tokens _count_tokens counts.
MaxTokens == 2
TokenCounts == 0..MaxTokens
Responses ==
  [kind : {"raises", "empty"}, output : {""}, in_tok : {0}, out_tok : {0}]
  \cup [kind : {"usage", "counted"}, output : {"df = spark.read"},
        in_tok : TokenCounts, out_tok : TokenCounts]

\* The try block raises: predict_messages raised (line 79) or the output is
\* empty (lines 81-82).
Raises(resp) == resp.kind \in {"raises", "empty"}

\* str(exc)
ExcOf(resp) ==
  IF resp.kind = "empty" THEN "LLM returned empty result" ELSE "LLMError"

\* The record of lines 92-100.
SuccessRecord(id, resp) ==
  [id |-> id, ok |-> TRUE, code |-> <<resp.output>>, reason |-> "",
   input_tokens |-> resp.in_tok, output_tokens |-> resp.out_tok,
   total_tokens |-> resp.in_tok + resp.out_tok]

\* The record of lines 104-112.
FailedRecord(id, exc) ==
  [id |-> id, ok |-> FALSE, code |-> <<"# LLM ERROR: ", exc>>, reason |-> exc,
   input_tokens |-> 0, output_tokens |-> 0, total_tokens |-> 0]

\* The record of lines 142-150.
DryRunRecord(id) ==
  [id |-> id, ok |-> TRUE, code |-> <<"# DRY RUN - SKIPPED">>,
   reason |-> "Dry run mode",
   input_tokens |-> 0, output_tokens |-> 0, total_tokens |-> 0]

\* A handler that gives up at the first failure.
NeverRetry(retry) == FALSE

\* if not retry (line 102)
ShouldRetry(retry) == ~retry

\* The id of block n, "chunk_n", and int(r["id"].split("_")[-1]).
BlockId(n) == <<"chunk", n>>
IdNumber(id) == id[2]

\* records.sort(key=lambda r: int(r["id"].split("_")[-1])), for records of
\* distinct ids.
SortRecords(records) ==
  LET order == SortedSeq({IdNumber(records[k].id) : k \in 1..Len(records)})
      at(n) == CHOOSE k \in 1..Len(records) : IdNumber(records[k].id) = n
  IN  [j \in 1..Len(order) |-> records[at(order[j])]]

\* The lists of distinct ids state["ast_blocks"] is drawn from.
MaxBlocks == 2
BlockLists ==
  {blocks \in UNION {[1..n -> {BlockId(k) : k \in 1..MaxBlocks}] : n \in 1..MaxBlocks} :
     \A i, j \in 1..Len(blocks) : blocks[i] = blocks[j] => i = j}

\* llm_rule_node up to the head of the loop of line 130.
LlmRuleNode(blocks, dry_run) ==
  /\ conversion.pc = "idle"
  /\ conversion' = [NoConversion EXCEPT !.pc = "loop",
                                        !.ast_blocks = blocks,
                                        !.dry_run = dry_run]
  /\ UNCHANGED <<plsql_code, n_words, max_chunk_size, frontend, pc, regex_blocks,
                 all_blocks, cleaned_blocks, final_blocks, block_types, locals,
                 validation>>

\* One turn of `for blk in ast_blocks` (lines 130-152) up to the try of
\* _convert_chunk: the dry-run record, or the call with retry=False.
BlockTurn ==
  /\ conversion.pc = "loop"
  /\ conversion.i < Len(conversion.ast_blocks)
  /\ IF conversion.dry_run
     THEN conversion' =
            [conversion EXCEPT
               !.records = Append(@, DryRunRecord(conversion.ast_blocks[conversion.i + 1])),
               !.i = @ + 1]
     ELSE conversion' = [conversion EXCEPT !.pc = "convert",
                                           !.retry = FALSE,
                                           !.calls = << >>]
  /\ UNCHANGED <<plsql_code, n_words, max_chunk_size, frontend, pc, regex_blocks,
                 all_blocks, cleaned_blocks, final_blocks, block_types, locals,
                 validation>>

\* One attempt of _convert_chunk (lines 78-112) on the response resp of
\* llm.predict_messages: the record is returned to records.append (line 152),
\* or the handler calls _convert_chunk again with retry=True.
PredictMessages(resp) ==
  /\ conversion.pc = "convert"
  /\ LET id == conversion.ast_blocks[conversion.i + 1]
     IN  IF ~Raises(resp)
         THEN conversion' =
                [conversion EXCEPT !.calls = Append(@, resp),
                                   !.records = Append(@, SuccessRecord(id, resp)),
                                   !.pc = "loop",
                                   !.i = @ + 1]
         ELSE IF ShouldRetry(conversion.retry)
         THEN conversion' = [conversion EXCEPT !.calls = Append(@, resp),
                                               !.retry = TRUE]
         ELSE conversion' =
                [conversion EXCEPT !.calls = Append(@, resp),
                                   !.records = Append(@, FailedRecord(id, ExcOf(resp))),
                                   !.pc = "loop",
                                   !.i = @ + 1]
  /\ UNCHANGED <<plsql_code, n_words, max_chunk_size, frontend, pc, regex_blocks,
                 all_blocks, cleaned_blocks, final_blocks, block_types, locals,
                 validation>>

\* The end of the loop: the sort of line 154 and the returned keys
\* pyspark_chunks and failed_chunks (lines 178-197).
LlmRuleNodeReturn ==
  /\ conversion.pc = "loop"
  /\ conversion.i = Len(conversion.ast_blocks)
  /\ LET done(records) ==
           [conversion EXCEPT
              !.records = records,
              !.pyspark_chunks = SelectSeq(records, LAMBDA r : r.ok),
              !.failed_chunks =
                 LET failed == SelectSeq(records, LAMBDA r : ~r.ok)
                 IN  [k \in 1..Len(failed) |-> failed[k].id],
              !.pc = "returned"]
     IN  conversion' = done(SortRecords(conversion.records))
  /\ UNCHANGED <<plsql_code, n_words, max_chunk_size, frontend, pc, regex_blocks,
                 all_blocks, cleaned_blocks, final_blocks, block_types, locals,
                 validation>>

NextConvert ==
  \/ \E blocks \in BlockLists : \E dry_run \in BOOLEAN : LlmRuleNode(blocks, dry_run)
  \/ BlockTurn
  \/ \E resp \in Responses : PredictMessages(resp)
  \/ LlmRuleNodeReturn

SpecConvert == Init /\ [][NextConvert]_vars

(***************************************************************************)
(* validate.py: validate_node                                              *)
(***************************************************************************)
\* kw in code: the text holds kw as a substring.
Contains(code, kw) ==
  \E i \in 1..(Len(code) - Len(kw) + 1) : SubSeq(code, i, i + Len(kw) - 1) = kw

TermSparkRead == <<"s","p","a","r","k",".","r","e","a","d">>
TermSelect == <<".","s","e","l","e","c","t","(">>
TermFilter == <<".","f","i","l","t","e","r","(">>
TermWithColumn == <<".","w","i","t","h","C","o","l","u","m","n","(">>
TermGroupBy == <<".","g","r","o","u","p","B","y","(">>
TermWrite == <<".","w","r","i","t","e">>
TermJoin == <<".","j","o","i","n","(">>
SuspLlmError == <<"#"," ","L","L","M"," ","E","R","R","O","R">>
SuspSparkSql == <<"s","p","a","r","k",".","s","q","l","(","\"","\"","\"">>
SuspPass == <<"p","a","s","s">>
SuspTodo == <<"T","O","D","O">>
SuspNA == <<"N","A">>

\* spark_terms (lines 36-39) and suspicious_lines (line 47)
spark_terms == <<TermSparkRead, TermSelect, TermFilter, TermWithColumn,
                 TermGroupBy, TermWrite, TermJoin>>
suspicious_lines == <<SuspLlmError, SuspSparkSql, SuspPass, SuspTodo, SuspNA>>

MinCodeLength == 20
MinSparkTerms == 2
LengthPenalty == 40
CoveragePenalty == 30
ArtifactPenalty == 30
FullScore == 100
PassScore == 60

\* Rule 1: len(code.strip()) < 20
LengthCheck(code) == Len(Strip(Cells(code))) < MinCodeLength

\* Rule 2: len([kw for kw in spark_terms if kw in code]) < 2
SparkCoverage(code) ==
  Cardinality({k \in 1..Len(spark_terms) : Contains(code, spark_terms[k])})
    < MinSparkTerms

\* Rule 3: any(x in code for x in suspicious_lines)
LlmArtifact(code) ==
  \E k \in 1..Len(suspicious_lines) : Contains(code, suspicious_lines[k])

\* failure_tags after the three rules (lines 26-51)
FailureTags(code) ==
  (IF LengthCheck(code) THEN <<"length_check">> ELSE << >>)
  \o (IF SparkCoverage(code) THEN <<"spark_coverage">> ELSE << >>)
  \o (IF LlmArtifact(code) THEN <<"llm_artifact">> ELSE << >>)

\* score after the three rules (lines 27-51)
Score(code) ==
  FullScore - (IF LengthCheck(code) THEN LengthPenalty ELSE 0)
            - (IF SparkCoverage(code) THEN CoveragePenalty ELSE 0)
            - (IF LlmArtifact(code) THEN ArtifactPenalty ELSE 0)

\* The decision by the score alone.
PassedByScore(score, failure_tags) == score >= PassScore

\* passed = score >= 60 and not failure_tags (line 54)
Passed(score, failure_tags) == score >= PassScore /\ Len(failure_tags) = 0

\* The input sets: the generated code is a few words long.
MaxCodeWords == 3
WFiller == [i \in 1..MinCodeLength |-> "x"]
CodeVocabulary == {TermSparkRead, TermSelect, TermWrite, SuspPass, SuspNA,
                   WFiller, WSp}

\* state["pyspark_code"] grows by one word.
TypeCode ==
  /\ validation.pc = "input"
  /\ validation.n_words < MaxCodeWords
  /\ \E w \in CodeVocabulary :
       validation' = [validation EXCEPT !.pyspark_code = @ \o w,
                                        !.n_words = @ + 1]
  /\ UNCHANGED <<plsql_code, n_words, max_chunk_size, frontend, pc, regex_blocks,
                 all_blocks, cleaned_blocks, final_blocks, block_types, locals,
                 conversion>>

\* validate_node(state) with state["dry_run"] = dry_run.
ValidateNode(dry_run) ==
  /\ validation.pc = "input"
  /\ LET verdict(passed, score, failure_tags) ==
           [validation EXCEPT
              !.pc = "returned",
              !.dry_run = dry_run,
              !.validation_passed = passed,
              !.validation_score = score,
              !.validation_tags = IF passed THEN << >> ELSE failure_tags,
              !.failed_chunks = IF passed THEN << >> ELSE <<"validation">>]
         decide(score, failure_tags) ==
           verdict(Passed(score, failure_tags), score, failure_tags)
     IN  IF dry_run
         THEN validation' = [validation EXCEPT
                               !.pc = "returned",
                               !.dry_run = TRUE,
                               !.validation_passed = TRUE,
                               !.validation_score = FullScore,
                               !.validation_tags = <<"dry_run">>,
                               !.failed_chunks = << >>]
         ELSE validation' = decide(Score(validation.pyspark_code),
                                   FailureTags(validation.pyspark_code))
  /\ UNCHANGED <<plsql_code, n_words, max_chunk_size, frontend, pc, regex_blocks,
                 all_blocks, cleaned_blocks, final_blocks, block_types, locals,
                 conversion>>

NextValidate ==
  \/ TypeCode
  \/ \E dry_run \in BOOLEAN : ValidateNode(dry_run)

SpecValidate == Init /\ [][NextValidate]_vars

(***************************************************************************)
(* Properties                                                              *)
(***************************************************************************)
Returned == pc = "returned"

\* The text is whitespace only (or empty).
IsBlank(s) == \A i \in 1..Len(s) : IsSpace(Ch(s[i]))

\* The number of non-blank ';'-separated pieces of a block: its statements.
CountNonBlank(pieces) == Cardinality({k \in 1..Len(pieces) : ~IsBlank(pieces[k])})
StatementCount(b) == CountNonBlank(SplitCh(b, SEMI))

\* C1 (as stated): every returned block is within max_chunk_size or is a
\* single statement; no returned block of two or more statements is longer
\* than max_chunk_size.
SoftBudget ==
  Returned =>
    \A k \in 1..Len(final_blocks) :
      Len(final_blocks[k]) <= max_chunk_size \/ StatementCount(final_blocks[k]) = 1

\* The source positions a text holds.
PosSet(b) == {Pos(b[i]) : i \in 1..Len(b)} \ {0}

\* Fragments i and j of the merge pass lie in one and the same merged block.
Together(i, j) ==
  Cardinality({k \in 1..Len(cleaned_blocks) :
                 PosSet(all_blocks[i]) \cup PosSet(all_blocks[j])
                   \subseteq PosSet(cleaned_blocks[k])}) = 1

\* Fragments i and i+1 are both under 180 characters and sum to at most 300.
SmallPair(i) ==
  /\ Len(all_blocks[i]) < 180
  /\ Len(all_blocks[i+1]) < 180
  /\ Len(all_blocks[i]) + Len(all_blocks[i+1]) <= 300

\* The total length of the fragments waiting in the buffer once the first k
\* fragments have been processed.
RECURSIVE Pending(_)
Pending(k) ==
  IF k = 0 THEN 0
  ELSE IF Len(all_blocks[k]) >= 180 THEN 0
  ELSE IF Pending(k - 1) + Len(all_blocks[k]) > 300 THEN 0
  ELSE Pending(k - 1) + Len(all_blocks[k])

\* C2 (as stated): two adjacent fragments, each under 180 characters and
\* together at most 300, end up in one merged block, whatever precedes them.
MergeSmallAdjacent ==
  Returned =>
    \A i \in 1..(Len(all_blocks) - 1) : SmallPair(i) => Together(i, i + 1)

\* C2 (amended): such a pair ends up in one merged block exactly when the
\* fragments already waiting in the buffer, plus the first of the two, do
\* not exceed 300 characters.
MergeSmallAdjacentPending ==
  Returned =>
    \A i \in 1..(Len(all_blocks) - 1) :
      SmallPair(i) =>
        (Together(i, i + 1) <=> Pending(i - 1) + Len(all_blocks[i]) <= 300)

\* A small pair that joins a fragment already waiting in the buffer.
MergeSmallAdjacentWitness ==
  /\ Returned
  /\ \E i \in 2..(Len(all_blocks) - 1) :
       SmallPair(i) /\ Pending(i - 1) > 0 /\ Together(i, i + 1)

\* The merged blocks that hold text of fragment i.
BlocksOf(i) ==
  {k \in 1..Len(cleaned_blocks) :
     PosSet(cleaned_blocks[k]) \cap PosSet(all_blocks[i]) # {}}

\* C3: a fragment of 180 characters or more is never joined with a
\* neighbour: exactly one merged block holds text of it, and that block is
\* the fragment itself.
LargeFragmentAlone ==
  Returned =>
    \A i \in 1..Len(all_blocks) :
      Len(all_blocks[i]) >= 180 =>
        /\ Cardinality(BlocksOf(i)) = 1
        /\ \A k \in BlocksOf(i) : cleaned_blocks[k] = all_blocks[i]

\* A large fragment between two small ones: three merged blocks.
LargeFragmentAloneWitness ==
  /\ Returned
  /\ Len(all_blocks) = 3
  /\ Len(all_blocks[1]) < 180
  /\ Len(all_blocks[2]) >= 180
  /\ Len(all_blocks[3]) < 180
  /\ Len(cleaned_blocks) = 3

\* The first non-blank characters of the line are '--'.
IsCommentLine(l) ==
  \E i \in 1..(Len(l) - 1) :
    /\ Ch(l[i]) = "-" /\ Ch(l[i + 1]) = "-"
    /\ \A j \in 1..(i - 1) : IsSpace(Ch(l[j]))

\* Every line of the lines is blank or a comment line.
AllLinesCommentOrBlank(ls) ==
  \A k \in 1..Len(ls) : IsBlank(ls[k]) \/ IsCommentLine(ls[k])

\* The block is empty, whitespace only, or made of blank and comment lines.
CommentOnly(b) == IsBlank(b) \/ AllLinesCommentOrBlank(SplitCh(b, NL))

\* C4: no returned block is empty, whitespace-only or made up solely of
\* blank lines and '--' comment lines.
NoCommentOnlyBlock ==
  Returned => \A k \in 1..Len(final_blocks) : ~CommentOnly(final_blocks[k])

\* A comment-only merged block was there and the final filter dropped it.
NoCommentOnlyBlockWitness ==
  /\ Returned
  /\ Len(cleaned_blocks) = 1
  /\ CommentOnly(cleaned_blocks[1])
  /\ final_blocks = << >>

\* The source positions held by some block of the list.
Covered(blocks) == UNION {PosSet(blocks[k]) : k \in 1..Len(blocks)}

\* The positions of the script's non-whitespace characters.
NonSpacePositions ==
  {i \in 1..Len(plsql_code) : ~IsSpace(plsql_code[i])}

\* C5 (as stated): the units of the extractor hold every non-whitespace
\* character of the script except '/' separator tokens.
ExtractorTotalCoverage ==
  Returned =>
    \A i \in NonSpacePositions \ Covered(regex_blocks) : plsql_code[i] = "/"

\* The positions of the script that lie in a '--' comment: at or after a
\* '--' on the same line.
CommentPositions ==
  {i \in 1..Len(plsql_code) :
     \E j \in 1..i :
       /\ j < Len(plsql_code)
       /\ plsql_code[j] = "-" /\ plsql_code[j + 1] = "-"
       /\ \A m \in j..i : plsql_code[m] \notin {NL, CR}}

\* A cell that is neither whitespace nor part of a comment of the script.
IsContent(c) == ~IsSpace(Ch(c)) /\ Pos(c) \notin CommentPositions

\* The non-comment, non-whitespace characters of a text, in order.
ContentOf(s) == Txt(SelectSeq(s, IsContent))

\* The number of ';' in a text.
Terminators(s) == Cardinality({i \in 1..Len(s) : Ch(s[i]) = SEMI})

\* C6 (as stated): the non-comment, non-whitespace characters of the
\* returned blocks, concatenated in order, are exactly those of the script:
\* nothing dropped, nothing inserted.
ContentPreserved ==
  Returned => ContentOf(Concat(final_blocks)) = ContentOf(Cells(plsql_code))

\* The part of C6 about the terminator: the returned blocks hold no more
\* ';' than the script.
NoTerminatorInserted ==
  Returned => Terminators(Concat(final_blocks)) <= Terminators(Cells(plsql_code))

\* A cell that comes from the script.
FromSource(c) == Pos(c) # 0

\* The source positions of the blocks of a list, in the order they stand there.
SourceOrder(blocks) ==
  [i \in 1..Len(SelectSeq(Concat(blocks), FromSource)) |->
     Pos(SelectSeq(Concat(blocks), FromSource)[i])]

\* Strictly increasing: in source order and nothing twice.
Increasing(ps) == \A i \in 1..(Len(ps) - 1) : ps[i] < ps[i + 1]

\* C7: after every phase the text of the blocks stands in source order,
\* no piece reordered or duplicated.
OrderPreserved ==
  Returned =>
    /\ Increasing(SourceOrder(regex_blocks))
    /\ Increasing(SourceOrder(all_blocks))
    /\ Increasing(SourceOrder(cleaned_blocks))
    /\ Increasing(SourceOrder(final_blocks))

\* A unit that was decomposed, its pieces merged and the merged block
\* re-split into two returned blocks.
OrderPreservedWitness ==
  /\ Returned
  /\ Len(regex_blocks) = 1
  /\ Len(all_blocks) = 2
  /\ Len(cleaned_blocks) = 1
  /\ Len(final_blocks) = 2

\* The lines of a block that are not blank, in order.
NonBlankLines(b) == SelectSeq(SplitCh(b, NL), LAMBDA l : ~IsBlank(l))

\* The first non-blank line of a block, without the blanks around it.
FirstNonBlankLine(b) == Strip(NonBlankLines(b)[1])

\* The blocks classified so far.
Classified == 1..Len(block_types)

\* C8: every returned block gets exactly one tag, a member of the
\* enumeration ("ANONYMOUS BLOCK" is the code's spelling of ANONYMOUS_BLOCK);
\* the tag is that of the block's first non-blank line, and equal blocks get
\* equal tags whatever was classified before.
ClassifierTotal ==
  Returned =>
    /\ Len(block_types) <= Len(final_blocks)
    /\ \A k \in Classified :
         /\ block_types[k] \in BlockType
         /\ block_types[k] = HeaderType(FirstNonBlankLine(final_blocks[k]))
    /\ \A j, k \in Classified :
         Txt(final_blocks[j]) = Txt(final_blocks[k]) => block_types[j] = block_types[k]

\* A classified block of several lines whose last line alone would be OTHER.
ClassifierTotalWitness ==
  /\ Returned
  /\ \E k \in Classified :
       /\ Len(NonBlankLines(final_blocks[k])) > 1
       /\ block_types[k] = "ANONYMOUS BLOCK"
       /\ LastLine(NonBlankLines(final_blocks[k])) = "OTHER"

\* "CREATE X" or "CREATE OR REPLACE X" at the start of a line.
StartsCreate(header, kw, hdr) ==
  MatchAtCI(header, 1, KwCREATE \o <<SP>> \o kw) \/ MatchAtCI(header, 1, hdr)

\* The tag the mapping of C9 gives a first line.
StatedTag(header) ==
  IF StartsCreate(header, KwFUNCTION, HdrFUNCTION) THEN "FUNCTION"
  ELSE IF StartsCreate(header, KwPROCEDURE, HdrPROCEDURE) THEN "PROCEDURE"
  ELSE IF StartsCreate(header, KwPACKAGE, HdrPACKAGE) THEN "PACKAGE"
  ELSE IF StartsCreate(header, KwTRIGGER, HdrTRIGGER) THEN "TRIGGER"
  ELSE IF MatchAtCI(header, 1, KwDECLARE) THEN "ANONYMOUS BLOCK"
  ELSE IF MatchAtCI(header, 1, KwBEGIN) THEN "ANONYMOUS BLOCK"
  ELSE IF MatchAtCI(header, 1, KwUPDATE) THEN "UPDATE"
  ELSE IF MatchAtCI(header, 1, KwINSERT) THEN "INSERT"
  ELSE IF MatchAtCI(header, 1, KwDELETE) THEN "DELETE"
  ELSE IF MatchAtCI(header, 1, KwSELECT) THEN "SELECT"
  ELSE "OTHER"

\* C9 (as stated): the tag of a block is the one the mapping gives its first
\* non-blank line, OR REPLACE being optional in the four CREATE phrases.
ClassifierMapping ==
  Returned =>
    \A k \in Classified :
      block_types[k] = StatedTag(FirstNonBlankLine(final_blocks[k]))

\* C10 (as stated): in either front-end a call of split_plsql_into_blocks
\* returns a list of blocks and never raises.
SegmenterNeverRaises ==
  frontend \in FrontEnds => pc = "returned"

\* Positions i and j of the script are on the same line.
SameLine(i, j) ==
  \A m \in (IF i < j THEN i..j ELSE j..i) : plsql_code[m] \notin {NL, CR}

\* The positions of the '/' separators: a '/' alone on its line, after the
\* end of some unit.
SeparatorPositions ==
  {i \in 1..Len(plsql_code) :
     /\ plsql_code[i] = "/"
     /\ \A j \in 1..Len(plsql_code) :
          (j # i /\ SameLine(i, j)) => IsSpace(plsql_code[j])
     /\ \E j \in 1..(i - 1) : plsql_code[j] = SEMI}

\* C11 (as stated): a lone '/' between two units or after the last one is in
\* no unit of the extractor.
SeparatorDiscarded ==
  Returned => SeparatorPositions \cap Covered(regex_blocks) = {}

\* The script as the extractor scans it.
Code == NormalizeNewlines(Cells(plsql_code))

\* A definition header, DECLARE or BEGIN at p with an END; after it: the
\* index of the ';' of the first END; that follows, or 0.
CompoundEnd(s, p) ==
  OrElse(LazyEndSemi(s, CreateHeaderEnd(s, p)),
         OrElse(LazyEndSemi(s, AfterKw(s, p, KwDECLARE)),
                LazyEndSemi(s, AfterKw(s, p, KwBEGIN))))

\* The text before p is blank or ends, blanks aside, in a ';', and holds
\* no CREATE, DECLARE or BEGIN: p is at top level.
AtTopLevel(s, p) ==
  /\ \A q \in 1..(p - 1) : ~IsCompoundStart(SubSeq(s, q, Len(s)))
  /\ \/ IsBlank(SubSeq(s, 1, p - 1))
     \/ Ch(s[LastIdx(1, p - 1, LAMBDA i : ~IsSpace(Ch(s[i])))]) = SEMI

\* C12 (as stated): a compound construct that starts at top level is one
\* unit of the extractor, from its keyword to its END;.
CompoundUnitsWhole ==
  Returned =>
    \A p \in 1..Len(Code) :
      (CompoundEnd(Code, p) # 0 /\ AtTopLevel(Code, p)) =>
        \E k \in 1..Len(regex_blocks) :
          regex_blocks[k] = SubSeq(Code, p, CompoundEnd(Code, p))

\* The non-blank ';'-separated pieces of a text.
Statements(b) == SelectSeq(SplitCh(b, SEMI), LAMBDA s : ~IsBlank(s))

\* Every statement of the text, with its terminator, is shorter than max.
AllStatementsUnder(b, max) ==
  \A k \in 1..Len(Statements(b)) : Len(Statements(b)[k]) + 1 < max

\* The script is one BEGIN...END; unit, longer than max_chunk_size, of
\* several statements that are each shorter than max_chunk_size.
OversizedBeginUnit ==
  /\ Len(regex_blocks) = 1
  /\ MatchAtCI(regex_blocks[1], 1, KwBEGIN)
  /\ CompoundEnd(regex_blocks[1], 1) = Len(regex_blocks[1])
  /\ Len(regex_blocks[1]) > max_chunk_size
  /\ Len(Statements(regex_blocks[1])) >= 2
  /\ AllStatementsUnder(regex_blocks[1], max_chunk_size)

\* C13 (as stated): such a unit comes back as at least two blocks, all of
\* them but possibly the last within max_chunk_size.
OversizedBlockSplitWithinBudget ==
  (Returned /\ OversizedBeginUnit) =>
    /\ Len(final_blocks) >= 2
    /\ \A k \in 1..(Len(final_blocks) - 1) : Len(final_blocks[k]) <= max_chunk_size

\* A unit that is one statement: its only ';' is its last character, no
\* BEGIN stands in it, and it is not a comment.
SingleStatement(u) ==
  /\ ~CommentOnly(u)
  /\ \A i \in 1..Len(u) : (Ch(u[i]) = SEMI) <=> (i = Len(u))
  /\ \A i \in 1..Len(u) : ~MatchAtCI(u, i, KwBEGIN)

\* The returned blocks that hold text of unit u.
FinalBlocksOf(u) ==
  {j \in 1..Len(final_blocks) : PosSet(final_blocks[j]) \cap PosSet(u) # {}}

\* C14 (as stated): a single-statement unit longer than max_chunk_size is
\* returned as exactly one block, whose text is the unit's.
IrreduciblePassThrough ==
  Returned =>
    \A k \in 1..Len(regex_blocks) :
      (SingleStatement(regex_blocks[k]) /\ Len(regex_blocks[k]) > max_chunk_size) =>
        /\ Cardinality(FinalBlocksOf(regex_blocks[k])) = 1
        /\ \A j \in FinalBlocksOf(regex_blocks[k]) :
             Txt(final_blocks[j]) = Txt(regex_blocks[k])

\* C15 (as stated): the text of a unit of the extractor that is made of
\* blank and '--' lines only is in no fragment that enters the merge pass
\* and in no returned block.
CommentUnitsDropped ==
  Returned =>
    \A k \in 1..Len(regex_blocks) :
      CommentOnly(regex_blocks[k]) =>
        /\ PosSet(regex_blocks[k]) \cap Covered(all_blocks) = {}
        /\ PosSet(regex_blocks[k]) \cap Covered(final_blocks) = {}

\* Fragments k and k+1 were cut apart between two characters of one word:
\* the last source character of the one and the first of the other are
\* neighbours in the script and both word characters.
CutInsideWord(k) ==
  /\ PosSet(all_blocks[k]) # {} /\ PosSet(all_blocks[k + 1]) # {}
  /\ SetMax(PosSet(all_blocks[k])) + 1 = SetMin(PosSet(all_blocks[k + 1]))
  /\ IsWordCh(plsql_code[SetMax(PosSet(all_blocks[k]))])
  /\ IsWordCh(plsql_code[SetMin(PosSet(all_blocks[k + 1]))])

\* C19 (as stated): the decomposer cuts a statement only where a BEGIN
\* keyword starts a segment, never inside an identifier or word that merely
\* contains the letters of BEGIN.
BeginSplitOnlyAtKeyword ==
  Returned => \A k \in 1..(Len(all_blocks) - 1) : ~CutInsideWord(k)

\* The fragments that merged block k is made of.
FragmentsOf(k) ==
  {i \in 1..Len(all_blocks) :
     PosSet(all_blocks[i]) \cap PosSet(cleaned_blocks[k]) # {}}

\* C20: the tag of a merged block is the tag of the first of the fragments
\* it was joined from.
MergedTagIsFirstFragments ==
  Returned =>
    \A k \in 1..Len(cleaned_blocks) :
      FragmentsOf(k) # {} =>
        get_block_type(cleaned_blocks[k])
          = get_block_type(all_blocks[SetMin(FragmentsOf(k))])

\* A merged block of two fragments with different tags.
MergedTagIsFirstFragmentsWitness ==
  /\ Returned
  /\ \E k \in 1..Len(cleaned_blocks) :
       /\ Cardinality(FragmentsOf(k)) >= 2
       /\ get_block_type(all_blocks[SetMin(FragmentsOf(k))])
            # get_block_type(all_blocks[SetMax(FragmentsOf(k))])

\* The call run one loop turn at a time returns what the passes applied as
\* whole functions return.
StepwiseAgrees ==
  (Returned /\ locals.loop = "none" /\ locals.i_regex_blocks = Len(regex_blocks)) =>
    /\ all_blocks = RouteBlocks(regex_blocks, max_chunk_size)
    /\ cleaned_blocks = MergeBlocks(all_blocks)
    /\ final_blocks = FinalFilter(ResplitBlocks(cleaned_blocks, max_chunk_size))

\* The for loops of a call, named by the list they run over, the number of
\* elements a loop has taken and the length of its list.
Loops == {"regex_blocks", "statements", "inner_blocks", "parts", "blocks",
          "all_blocks", "cleaned_blocks", "stmts"}

LoopIndex(loc, l) ==
  CASE l = "regex_blocks"   -> loc.i_regex_blocks
    [] l = "statements"     -> loc.i_statements
    [] l = "inner_blocks"   -> loc.i_inner_blocks
    [] l = "parts"          -> loc.i_parts
    [] l = "blocks"         -> loc.i_blocks
    [] l = "all_blocks"     -> loc.i_all_blocks
    [] l = "cleaned_blocks" -> loc.i_cleaned_blocks
    [] l = "stmts"          -> loc.i_stmts
    [] OTHER                -> 0

LoopLen(l) ==
  CASE l = "regex_blocks"   -> Len(regex_blocks)
    [] l = "statements"     -> Len(locals.statements)
    [] l = "inner_blocks"   -> Len(locals.inner_blocks)
    [] l = "parts"          -> Len(locals.parts)
    [] l = "blocks"         -> Len(locals.blocks)
    [] l = "all_blocks"     -> Len(all_blocks)
    [] l = "cleaned_blocks" -> Len(cleaned_blocks)
    [] l = "stmts"          -> Len(locals.stmts)
    [] OTHER                -> 0

\* A loop turn that opens a loop inside it, the end of a loop that lets the
\* loop around it go on, and the end of a pass that starts the next one.
Opens == {<<"regex_blocks", "statements">>, <<"statements", "inner_blocks">>,
          <<"inner_blocks", "parts">>, <<"cleaned_blocks", "stmts">>}
Resumes == {<<"parts", "inner_blocks">>, <<"inner_blocks", "statements">>,
            <<"blocks", "regex_blocks">>, <<"stmts", "cleaned_blocks">>}
Follows == {<<"statements", "blocks">>, <<"regex_blocks", "all_blocks">>,
            <<"all_blocks", "cleaned_blocks">>, <<"cleaned_blocks", "none">>}

\* A step of a running call takes exactly one element of the list of the loop
\* it is in, or opens an inner loop at its first element, or leaves a loop
\* whose list is used up; no other loop's position moves.
TakesOne(from, to) ==
  /\ \/ to = from
     \/ <<from, to>> \in Opens \cup Resumes \cup Follows
  /\ to = from => LoopIndex(locals', from) = LoopIndex(locals, from) + 1
  /\ <<from, to>> \in Opens =>
       /\ LoopIndex(locals, from) < LoopLen(from)
       /\ LoopIndex(locals', to) = 0
  /\ <<from, to>> \in Resumes =>
       /\ LoopIndex(locals, from) = LoopLen(from)
       /\ LoopIndex(locals', to) = LoopIndex(locals, to) + 1
  /\ <<from, to>> \in Follows =>
       /\ LoopIndex(locals, from) = LoopLen(from)
       /\ LoopIndex(locals', to) = 0
  /\ \A l \in Loops \ {to} : LoopIndex(locals', l) = LoopIndex(locals, l)

\* The number of occurrences of BEGIN in the script.
BeginCount == Cardinality({i \in 1..Len(plsql_code) : MatchAtCI(Cells(plsql_code), i, KwBEGIN)})

\* C16: a call of split_plsql_into_blocks that has begun returns; at no time
\* are more than two decomposition loops open (the loop over the BEGIN
\* pieces and the bucketing loop inside it), whatever the nesting of BEGIN
\* in the script; and every step of the call takes exactly one element of
\* the list of the loop it is in, a loop being left only when its list is
\* used up.
SplitTerminates ==
  /\ (pc = "running") ~> (pc = "returned")
  /\ [](locals.depth <= 2)
  /\ [](pc = "running" => /\ locals.loop \in Loops
                          /\ LoopIndex(locals, locals.loop) <= LoopLen(locals.loop))
  /\ [][pc = "running" => TakesOne(locals.loop, locals'.loop)]_vars

\* A call on a script with BEGIN inside BEGIN has returned after its
\* bucketing loop ran to the end of its list.
SplitTerminatesWitness ==
  /\ Returned
  /\ BeginCount >= 2
  /\ Len(locals.parts) > 0
  /\ locals.i_parts = Len(locals.parts)
  /\ locals.i_regex_blocks = Len(regex_blocks)
  /\ locals.i_all_blocks = Len(all_blocks)
  /\ locals.i_cleaned_blocks = Len(cleaned_blocks)

\* The blocks a step appended to a list.
NewBlocks(old, new) == SubSeq(new, Len(old) + 1, Len(new))

\* The characters of the texts of a list that are not whitespace, in order.
NonSpaceCells(texts) == SelectSeq(Concat(texts), LAMBDA c : ~IsSpace(Ch(c)))

\* One turn of a bucketing loop on the statement stmt (its text with its
\* terminator), with the running total and the pending bucket before the
\* turn, the pending bucket after it and the blocks the turn emitted: the
\* bucket is closed exactly when the total with stmt exceeds max, it then
\* holds the pending statements and stmt in order, and otherwise stmt joins
\* the pending bucket.
BucketTurn(stmt, total, before, after, closed, max) ==
  /\ total <= max
  /\ Len(closed) = (IF total + Len(stmt) > max THEN 1 ELSE 0)
  /\ Len(closed) = 1 =>
       /\ after = << >>
       /\ Strip(closed[1]) = Strip(JoinNL(Append(before, stmt)))
  /\ Len(closed) = 0 => after = Append(before, stmt)

\* The end of a bucketing loop over the statements stmts, with the pending
\* bucket and the blocks the step emitted: the pending bucket is flushed if
\* and only if it is not empty.
BucketFlush(pending, closed) ==
  /\ Len(closed) = (IF Len(pending) > 0 THEN 1 ELSE 0)
  /\ Len(closed) = 1 => Strip(closed[1]) = Strip(JoinNL(pending))

\* A step of the loop over ib.split(';') of _ast_chunk_blocks.
PartsLoopStep ==
  locals.loop = "parts" =>
    IF locals'.loop = "parts"
    THEN LET part == locals.parts[locals.i_parts + 1]
         IN  IF IsBlank(part)
             THEN /\ locals'.temp = locals.temp
                  /\ locals'.sub_blocks = locals.sub_blocks
             ELSE BucketTurn(part \o <<Ins(SEMI)>>, locals.temp_len, locals.temp,
                             locals'.temp,
                             NewBlocks(locals.sub_blocks, locals'.sub_blocks),
                             max_chunk_size)
    ELSE /\ BucketFlush(locals.temp, NewBlocks(locals.sub_blocks, locals'.sub_blocks))
         /\ NonSpaceCells(locals'.sub_blocks)
              = NonSpaceCells([k \in 1..Len(locals.parts) |->
                                 IF IsBlank(locals.parts[k]) THEN << >>
                                 ELSE locals.parts[k] \o <<Ins(SEMI)>>])

\* A step of the loop over stmts of split_plsql_into_blocks.
StmtsLoopStep ==
  locals.loop = "stmts" =>
    IF locals'.loop = "stmts"
    THEN BucketTurn(locals.stmts[locals.i_stmts + 1], locals.buff_len, locals.buff,
                    locals'.buff, NewBlocks(final_blocks, final_blocks'),
                    max_chunk_size)
    ELSE /\ BucketFlush(locals.buff, NewBlocks(final_blocks, final_blocks'))
         /\ \E n \in 0..Len(final_blocks') :
              JoinNL(NewBlocks(SubSeq(final_blocks', 1, n), final_blocks'))
                = JoinNL(locals.stmts)

\* C17: in both bucketing loops the running total is the length of the
\* pending statements with their terminators and is within max_chunk_size
\* between turns; a turn closes the bucket exactly when the total with the
\* statement it takes exceeds max_chunk_size, the closed bucket holding the
\* pending statements and that one in order; at the end of the loop the
\* pending bucket is flushed if and only if it is not empty; and the buckets
\* of a loop hold every non-blank statement once, in source order.
BucketingProtocol ==
  /\ [](locals.loop = "parts" => /\ locals.temp_len = SumLen(locals.temp)
                                 /\ locals.temp_len <= max_chunk_size)
  /\ [](locals.loop = "stmts" => /\ locals.buff_len = SumLen(locals.buff)
                                 /\ locals.buff_len <= max_chunk_size)
  /\ [][PartsLoopStep]_vars
  /\ [][StmtsLoopStep]_vars

\* A call has returned after its two bucketing loops ran: the decomposer's
\* emitted two buckets, the re-split's closed a bucket on overflow and
\* flushed a final partial one.
BucketingProtocolWitness ==
  /\ Returned
  /\ Len(locals.sub_blocks) >= 2
  /\ Len(locals.stmts) >= 2
  /\ Len(locals.buff) > 0
  /\ Len(locals.buff) < Len(locals.stmts)

Bucketed == pc = "bucketed"

\* C18: on the same text and budget the bucketing loop of _ast_chunk_blocks
\* and the re-split loop of split_plsql_into_blocks emit the same number of
\* blocks, and the blocks are pairwise equal once leading and trailing
\* whitespace is stripped (the same statements in the same buckets, in the
\* same order).
ResplitEqualsBucketing ==
  Bucketed =>
    /\ Len(locals.sub_blocks) = Len(final_blocks)
    /\ \A k \in 1..Len(final_blocks) :
         Strip(locals.sub_blocks[k]) = Strip(final_blocks[k])

\* Both loops emitted at least two buckets, one of which differs in its
\* leading or trailing whitespace between the two.
ResplitEqualsBucketingWitness ==
  /\ Bucketed
  /\ Len(final_blocks) >= 2
  /\ Len(locals.sub_blocks) = Len(final_blocks)
  /\ \E k \in 1..Len(final_blocks) : locals.sub_blocks[k] # final_blocks[k]

\* The total length of the fragments of a list and the block they join into.
FlushedFrom(frags, block) ==
  /\ block = JoinNL(frags)
  /\ \A k \in 1..Len(frags) : Len(frags[k]) < SmallFragment
  /\ SumLen(frags) <= MergeCeiling + SmallFragment - 1
  /\ Len(block) = SumLen(frags) + Len(frags) - 1

\* A step of the merge loop (lines 77-91) on the fragment b it takes, or at
\* the end of all_blocks: what it appends to cleaned_blocks.
MergeLoopStep ==
  locals.loop = "all_blocks" =>
    LET emitted == NewBlocks(cleaned_blocks, cleaned_blocks')
    IN  IF locals'.loop = "all_blocks"
        THEN LET b == all_blocks[locals.i_all_blocks + 1]
             IN  IF IsBlank(b) THEN Len(emitted) = 0
                 ELSE IF Len(b) < SmallFragment
                 THEN /\ Len(emitted) <= 1
                      /\ Len(emitted) = 1 =>
                           /\ FlushedFrom(Append(locals.temp, b), emitted[1])
                           /\ SumLen(Append(locals.temp, b)) > MergeCeiling
                           /\ locals'.temp = << >>
                      /\ Len(emitted) = 0 => locals'.temp = Append(locals.temp, b)
                 ELSE /\ emitted[Len(emitted)] = b
                      /\ Len(emitted) = (IF Len(locals.temp) > 0 THEN 2 ELSE 1)
                      /\ Len(emitted) = 2 => FlushedFrom(locals.temp, emitted[1])
                      /\ locals'.temp = << >>
        ELSE /\ Len(emitted) = (IF Len(locals.temp) > 0 THEN 1 ELSE 0)
             /\ Len(emitted) = 1 => FlushedFrom(locals.temp, emitted[1])

\* C21: between the turns of the merge loop the pending buffer temp holds
\* only fragments shorter than 180 characters whose lengths sum to at most
\* 300; every block flushed from the buffer joins fragments shorter than 180
\* whose lengths sum to at most 479, its length being that sum plus one
\* newline per extra fragment; and a block flushed by the overflow rule
\* sums to more than 300.
MergeBufferBound ==
  /\ [](locals.loop = "all_blocks" =>
          /\ \A k \in 1..Len(locals.temp) : Len(locals.temp[k]) < SmallFragment
          /\ SumLen(locals.temp) <= MergeCeiling)
  /\ [][MergeLoopStep]_vars

\* A call has returned a block merged from three fragments whose lengths sum
\* to 479, the largest sum the overflow rule lets through.
MergeBufferBoundWitness ==
  /\ Returned
  /\ \E k \in 1..Len(cleaned_blocks) :
       Len(cleaned_blocks[k]) = MergeCeiling + SmallFragment - 1 + 2

\* The outcomes of the calls of llm.predict_messages made for the block whose
\* record was appended last, and that record.
Converted ==
  /\ conversion.pc \in {"loop", "returned"}
  /\ ~conversion.dry_run
  /\ conversion.i > 0

\* An attempt failed: the call raised or returned empty output.
AttemptFailed(resp) == resp.kind = "raises" \/ resp.kind = "empty"

\* The record _convert_chunk returned for block i, given the calls made.
ConvertedRecord(r, id, calls) ==
  /\ r.id = id
  /\ ~r.ok <=> (Len(calls) = 2 /\ AttemptFailed(calls[1]) /\ AttemptFailed(calls[2]))
  /\ ~r.ok => (r.input_tokens = 0 /\ r.output_tokens = 0 /\ r.total_tokens = 0)
  /\ r.ok => /\ r.total_tokens = r.input_tokens + r.output_tokens
             /\ ~AttemptFailed(calls[Len(calls)])

\* C22: for every block _convert_chunk calls the LLM at most twice, the
\* second time only with retry set and only after a first call that raised
\* or returned empty output; no failure leaves the function; the record it
\* returns has the block's id, ok is False if and only if both attempts
\* failed, a failed record has zero input, output and total tokens, and a
\* successful one has total_tokens = input_tokens + output_tokens.
BoundedRetry ==
  /\ Len(conversion.calls) <= 2
  /\ conversion.pc \in {"idle", "loop", "convert", "returned"}
  /\ conversion.pc = "convert" =>
       IF conversion.retry
       THEN Len(conversion.calls) = 1 /\ AttemptFailed(conversion.calls[1])
       ELSE Len(conversion.calls) = 0
  /\ Converted =>
       /\ Len(conversion.calls) >= 1
       /\ Len(conversion.calls) = 2 => AttemptFailed(conversion.calls[1])
       /\ \E k \in 1..Len(conversion.records) :
            conversion.records[k].id = conversion.ast_blocks[conversion.i]
       /\ \A k \in 1..Len(conversion.records) :
            conversion.records[k].id = conversion.ast_blocks[conversion.i] =>
              ConvertedRecord(conversion.records[k],
                              conversion.ast_blocks[conversion.i],
                              conversion.calls)

\* The node has returned a failed record, made after two failed attempts,
\* and a successful record that counts tokens.
BoundedRetryWitness ==
  /\ conversion.pc = "returned"
  /\ Len(conversion.calls) = 2
  /\ AttemptFailed(conversion.calls[2])
  /\ Len(conversion.failed_chunks) = 1
  /\ \E k \in 1..Len(conversion.pyspark_chunks) :
       conversion.pyspark_chunks[k].total_tokens > 0

\* 1 when the rule fired, 0 otherwise.
Fired(rule) == IF rule THEN 1 ELSE 0

\* C23: when dry_run is false validate_node returns validation_passed = True
\* if and only if none of the three rules fired, validation_score = 100 less
\* 40 for the length rule, 30 for the coverage rule and 30 for the artifact
\* rule (so within 0..100), validation_tags the fired rules and nothing
\* else, and failed_chunks [] when passed and ['validation'] otherwise; when
\* dry_run is true it returns passed with score 100 whatever the code is.
ValidationVerdict ==
  validation.pc = "returned" =>
    LET code == validation.pyspark_code
        tags == {validation.validation_tags[k] : k \in 1..Len(validation.validation_tags)}
    IN  IF validation.dry_run
        THEN validation.validation_passed /\ validation.validation_score = 100
        ELSE /\ validation.validation_passed
                  <=> ~(LengthCheck(code) \/ SparkCoverage(code) \/ LlmArtifact(code))
             /\ validation.validation_score
                  = 100 - 40 * Fired(LengthCheck(code))
                        - 30 * Fired(SparkCoverage(code))
                        - 30 * Fired(LlmArtifact(code))
             /\ validation.validation_score \in 0..100
             /\ "length_check" \in tags <=> LengthCheck(code)
             /\ "spark_coverage" \in tags <=> SparkCoverage(code)
             /\ "llm_artifact" \in tags <=> LlmArtifact(code)
             /\ tags \subseteq {"length_check", "spark_coverage", "llm_artifact"}
             /\ Len(validation.validation_tags) = Cardinality(tags)
             /\ validation.failed_chunks
                  = (IF validation.validation_passed THEN << >> ELSE <<"validation">>)

\* Code that is long enough and shows no artifact but names a single Spark
\* term was rejected with score 70, above the pass score.
ValidationVerdictWitness ==
  /\ validation.pc = "returned"
  /\ ~validation.dry_run
  /\ ~validation.validation_passed
  /\ validation.validation_score = 70
  /\ validation.validation_tags = <<"spark_coverage">>
  /\ Contains(validation.pyspark_code, TermSparkRead)

====
